---- MODULE Spec2Model ----
(***************************************************************************)
(* Model of the montblanc refuge availability checker: the polling loop of *)
(* cmd/check (both revisions of main.go: the general broadcast and the     *)
(* per-subscriber fan-out), the availability parser it calls, the          *)
(* notification fan-out and the pure helpers they use (Spec); queryMatches *)
(* called on its own (SpecQM); and the /subscribe handler of the web       *)
(* server with the store it writes (SpecWeb).                              *)
(*                                                                         *)
(* Strings that the code parses are modelled by their structure:           *)
(*   - a date string is a tuple: <<>> is "", <<y, m, d>> is the text       *)
(*     "YYYY-MM-DD" with those numbers, any other tuple is text that is    *)
(*     not of that shape;                                                  *)
(*   - a day token of the upstream page is the tuple of its "/" separated  *)
(*     parts, <<m, d>> for "MM/DD";                                        *)
(*   - refuge names and statuses are TLA+ strings ("Tete Rousse" and       *)
(*     "du Gouter" stand for the accented names);                          *)
(*   - a chat id is the sequence of the code points of its text.           *)
(***************************************************************************)
EXTENDS Integers, Sequences, FiniteSets, TLC

(***************************************************************************)
(* Bounds of the model.                                                    *)
(***************************************************************************)
\* ticks of the ticker that are explored
MaxCycles == 2
\* waiting-room answers the upstream gives within one fetch
MaxRetry == 1

\* the requests the web server receives in a run
MaxRequests == 1

\* the calls made on the two stores in a run
MaxCalls == 3

\* calls of web.UpdateState followed
MaxUpdates == 2

\* day entries of each kind in a document given to parseRefugeContent alone
MaxEntries == 2

\* requests to the webhook and to the subscription form followed together
MaxMessages == 3

\* calls of fetchRefugesWindow followed with the snapshots as references
MaxFetches == 2

(***************************************************************************)
(* Program constants.                                                      *)
(***************************************************************************)
\* len(monthAnchors): current month, +1, +2
NumAnchors == 3

TeteRousse == "Tete Rousse"
DuGouter == "du Gouter"
\* refugeIDs of ParseRefugeAvailability
RefugeNames == {TeteRousse, DuGouter}

\* first day of the month the process runs in
monthStart == <<2025, 8, 1>>

(***************************************************************************)
(* Universe of upstream answers and of stored data.                        *)
(***************************************************************************)
\* MM/DD day tokens the booking site shows
Tokens == {<<8, 3>>, <<8, 10>>}
\* the same tokens in the order of the calendar
TokenList == <<<<8, 3>>, <<8, 10>>>>
\* place counts shown for an available day
Places == {"2"}
\* chat ids are strings, kept as the sequences of their code points
ChatA == <<49, 48, 49>>
ChatB == <<50, 48, 50>>
EnvChat == <<57, 48, 48>>

\* Permutations of a finite set, as sequences
Perms(S) == {p \in [1..Cardinality(S) -> S] : \A i, j \in 1..Cardinality(S) : p[i] = p[j] => i = j}

Range(s) == {s[i] : i \in 1..Len(s)}

\* HTML documents: the login marker, the waiting-room marker, the
\* .day.dispo entries in document order (the text of span.date, split at
\* "/", and the text of span.place) and the texts of the .day.complet
\* entries in document order.
\* A calendar page lists every day of its window, as available or as full
Page(f) ==
    LET available(t) == f[t] # "Full"
        full(t) == f[t] = "Full"
        days == SelectSeq(TokenList, available)
    IN  [login |-> FALSE, waiting |-> FALSE,
         dispo |-> [i \in 1..Len(days) |-> [date |-> days[i], place |-> f[days[i]]]],
         complet |-> SelectSeq(TokenList, full)]

CalendarPages == {Page(f) : f \in [Tokens -> Places \cup {"Full"}]}

\* a page without any day entry
EmptyPage == [login |-> FALSE, waiting |-> FALSE, dispo |-> <<>>, complet |-> <<>>]

LoginPage == [login |-> TRUE, waiting |-> FALSE, dispo |-> <<>>, complet |-> <<>>]

WaitingRoomPage == [login |-> FALSE, waiting |-> TRUE, dispo |-> <<>>, complet |-> <<>>]

Contents == CalendarPages \cup {EmptyPage, LoginPage, WaitingRoomPage}

\* what makeAvailabilityRequest returns: an error (transport error or a
\* status other than 200), or the body of a 200
RequestError == [ok |-> FALSE, body |-> EmptyPage]

Responses == {RequestError} \cup {[ok |-> TRUE, body |-> c] : c \in Contents}

InWaitingRoom(r) == r.ok /\ ~r.body.login /\ r.body.waiting

\* the answers to the request for one refuge and to the requests that
\* parseRefugeContent makes from the waiting room: at most MaxRetry
\* waiting-room answers, then another answer
Chains == UNION {{[i \in 1..n |-> IF i < n THEN [ok |-> TRUE, body |-> WaitingRoomPage] ELSE t] : t \in {r \in Responses : ~InWaitingRoom(r)}} : n \in 1..(MaxRetry + 1)}

VARIABLES
    mode,           \* which revision of main.go runs: "general" or "perSubscriber"
    env,            \* TELEGRAM_BOT_TOKEN set?, ParseChatIDs(TELEGRAM_CHAT_IDS)
    subscribers,    \* store: chat id -> Subscriber row
    queries,        \* store: set of Query rows
    pc,             \* position of main: "fetch" (calls fetchRefugesWindow), "fetched", "waiting" (in select), "done"
    phase,          \* "startup" (initial check) or "loop"
    cycle,          \* ticks taken so far
    sigPending,     \* a signal sits in sigChan
    notifiedDates,  \* main's notifiedDates map (its keys)
    state,          \* web.state: Refuges, LastCheck
    refuges,        \* result of fetchRefugesWindow (<<>> is nil)
    fetchErr,       \* error of fetchRefugesWindow: "none", "transport", "nodates", "reauth"
    sawLogin,       \* history: a response of this fetch held the login marker
    reqFailed,      \* history: a request of ParseRefugeAvailability's loop failed in this fetch
    partial,        \* history: the fetch was abandoned after dates had been extracted
    qm,             \* a call of queryMatches: its arguments and its result
    request,        \* the request the web server is handling
    response,       \* the status code written for it, 0 before the handler ran
    ops,            \* the store and telegram calls the handler made for it, each with the error returned
    served,         \* the number of requests received
    boltDB,         \* a Bolt store: the rows of its two buckets
    pgDB,           \* a Postgres store given the same calls: the rows of its two tables
    call,           \* the last call made on the two stores, with what each returned
    mu,             \* web.state.mu: the writer holding it and the readers holding it
    updater,        \* the goroutine of main inside web.UpdateState: position, arguments, calls made
    server,         \* the goroutine of web.StartServer: position
    handlers,       \* the request each of handleHome and handleStatus is serving: position, fields read
    left,           \* history: web.state as each completed critical section of a writer left it
    clock,          \* the next reading of time.Now()
    parse,          \* a call of parseRefugeContent: the HTML it is given, the anchor, and its result
    heap,           \* the slices and maps of the snapshots as Go values: who refers to which, who writes which
    hook,           \* the webhook: the update being handled, and history: who was greeted, who sent /stop last
    lastSent,       \* history: notifications sent by the last step of main
    processed       \* history: subscribers whose queries the last cycle read

vars == <<mode, env, subscribers, queries, pc, phase, cycle, sigPending, notifiedDates, state, refuges, fetchErr, sawLogin, reqFailed, partial, lastSent, processed, qm, request, response, ops, served, boltDB, pgDB, call, mu, updater, server, handlers, left, clock, parse, hook, heap>>

(***************************************************************************)
(* Dates: time.Parse("2006-01-02", s), Before and After.                   *)
(***************************************************************************)
IsLeap(y) == (y % 4 = 0 /\ y % 100 # 0) \/ y % 400 = 0

DaysIn(y, m) == IF m = 2 THEN (IF IsLeap(y) THEN 29 ELSE 28) ELSE IF m \in {4, 6, 9, 11} THEN 30 ELSE 31

\* the text has the shape YYYY-MM-DD and names a day of the calendar
ValidDate(s) == Len(s) = 3 /\ s[1] \in 0..9999 /\ s[2] \in 1..12 /\ s[3] \in 1..DaysIn(s[1], s[2])

\* time.Parse: err == nil, and the instant (a day number that keeps the order)
ParseDate(s) == [ok |-> ValidDate(s), t |-> IF ValidDate(s) THEN (s[1] * 12 + (s[2] - 1)) * 31 + (s[3] - 1) ELSE 0]

\* the string order of two date strings of the shape YYYY-MM-DD
DateLess(a, b) == a[1] < b[1] \/ (a[1] = b[1] /\ (a[2] < b[2] \/ (a[2] = b[2] /\ a[3] < b[3])))

(***************************************************************************)
(* queryMatches of cmd/check/main.go.                                      *)
(***************************************************************************)
\* a variant whose upper bound is exclusive
queryMatchesBeforeTo(refuge, date, q) ==
    IF q.Refuge # "*" /\ q.Refuge # refuge THEN FALSE
    ELSE IF q.DateFrom = <<>> /\ q.DateTo = <<>> THEN TRUE
    ELSE LET d == ParseDate(date)
             from == ParseDate(q.DateFrom)
             to == ParseDate(q.DateTo)
         IN  IF ~d.ok THEN FALSE
             ELSE IF q.DateFrom # <<>> /\ from.ok /\ d.t < from.t THEN FALSE
             ELSE IF q.DateTo # <<>> /\ to.ok /\ d.t >= to.t THEN FALSE
             ELSE TRUE

queryMatches(refuge, date, q) ==
    IF q.Refuge # "*" /\ q.Refuge # refuge THEN FALSE
    ELSE IF q.DateFrom = <<>> /\ q.DateTo = <<>> THEN TRUE
    ELSE LET d == ParseDate(date)
             from == ParseDate(q.DateFrom)
             to == ParseDate(q.DateTo)
         IN  IF ~d.ok THEN FALSE
             ELSE IF q.DateFrom # <<>> /\ from.ok /\ d.t < from.t THEN FALSE
             ELSE IF q.DateTo # <<>> /\ to.ok /\ d.t > to.t THEN FALSE
             ELSE TRUE

(***************************************************************************)
(* The parser: parseRefugeContent's extraction of the day entries.         *)
(***************************************************************************)
\* fmt.Sprintf("%04d-%02s-%02s", anchor.Year(), month, day)
FormatDate(year, tok) == <<year, tok[1], tok[2]>>

\* date != "" and strings.Split(date, "/") gave exactly two parts
TwoParts(date) == date # <<>> /\ Len(date) = 2

\* a variant of the map assignment that keeps the value a key already has
SetDateOnce(dates, key, value) == [d \in DOMAIN dates \cup {key} |-> IF d \in DOMAIN dates THEN dates[d] ELSE value]

\* refuge.Dates[formattedDate] = value
SetDate(dates, key, value) == [d \in DOMAIN dates \cup {key} |-> IF d = key THEN value ELSE dates[d]]

RECURSIVE EachDispo(_, _, _)
\* doc.Find(".day.dispo").Each(...)
EachDispo(entries, dates, year) ==
    IF entries = <<>> THEN dates
    ELSE LET e == Head(entries)
         IN  EachDispo(Tail(entries),
                       IF e.place # "" /\ TwoParts(e.date) THEN SetDate(dates, FormatDate(year, e.date), e.place) ELSE dates,
                       year)

RECURSIVE EachComplet(_, _, _)
\* doc.Find(".day.complet").Each(...)
EachComplet(entries, dates, year) ==
    IF entries = <<>> THEN dates
    ELSE EachComplet(Tail(entries),
                     IF TwoParts(Head(entries)) THEN SetDate(dates, FormatDate(year, Head(entries)), "Full") ELSE dates,
                     year)

\* the two Each loops: .day.dispo entries first, .day.complet entries second
ExtractDates(c, dates, anchor) == EachComplet(c.complet, EachDispo(c.dispo, dates, anchor[1]), anchor[1])

\* monthStart.AddDate(0, k, 0)
AddMonths(d, k) == <<d[1] + ((d[2] - 1 + k) \div 12), ((d[2] - 1 + k) % 12) + 1, d[3]>>

\* monthAnchors[i]
Anchor(i) == AddMonths(monthStart, i - 1)

RECURSIVE TotalDates(_)
\* totalDates += len(refuge.Dates)
TotalDates(rs) == IF rs = <<>> THEN 0 ELSE Cardinality(DOMAIN Head(rs).Dates) + TotalDates(Tail(rs))

RECURSIVE MergeRefuges(_, _)
\* fetchRefugesWindow: for _, rf := range res { merge or copy }
MergeRefuges(m, rs) ==
    IF rs = <<>> THEN m
    ELSE LET rf == Head(rs)
             dates == IF rf.Name \in DOMAIN m
                      THEN [d \in DOMAIN m[rf.Name] \cup DOMAIN rf.Dates |-> IF d \in DOMAIN rf.Dates THEN rf.Dates[d] ELSE m[rf.Name][d]]
                      ELSE rf.Dates
         IN  MergeRefuges([n \in DOMAIN m \cup {rf.Name} |-> IF n = rf.Name THEN dates ELSE m[n]], Tail(rs))

\* fetchRefugesWindow: the flattened slice, in any order of the map
Flatten(m) == {[i \in 1..Cardinality(DOMAIN m) |-> [Name |-> p[i], Dates |-> m[p[i]]]] : p \in Perms(DOMAIN m)}

RECURSIVE parseRefugeContent(_, _, _)
\* parseRefugeContent on answer i of a chain: [err, dates]
parseRefugeContent(chain, i, anchor) ==
    LET c == chain[i].body
    IN  IF c.login THEN [err |-> "reauth", dates |-> <<>>]
        ELSE IF c.waiting
        THEN \* sleep, makeAvailabilityRequest again, parse the new content
             IF ~chain[i + 1].ok THEN [err |-> "transport", dates |-> <<>>]
             ELSE parseRefugeContent(chain, i + 1, anchor)
        ELSE [err |-> "none", dates |-> ExtractDates(c, <<>>, anchor)]

\* what a fetch has met so far: login, a body held the login marker;
\* reqFailed, a request of ParseRefugeAvailability's loop failed
NoHist == [login |-> FALSE, reqFailed |-> FALSE]

RECURSIVE ParseLoop(_, _, _, _, _)
\* a variant that skips a refuge whose request failed and goes on with the
\* others, as it does for a refuge whose page cannot be parsed
ParseLoopSkipping(todo, answers, anchor, res, hist) ==
    IF todo = <<>>
    THEN IF TotalDates(res) = 0
         THEN [res |-> <<>>, err |-> "nodates", hist |-> hist, partial |-> FALSE]
         ELSE [res |-> res, err |-> "none", hist |-> hist, partial |-> FALSE]
    ELSE LET name == Head(todo)
             chain == answers[name]
             r == parseRefugeContent(chain, 1, anchor)
         IN  IF ~chain[1].ok
             THEN ParseLoop(Tail(todo), answers, anchor, res, [hist EXCEPT !.reqFailed = TRUE])
             ELSE IF r.err # "none"
             THEN ParseLoop(Tail(todo), answers, anchor, res, [hist EXCEPT !.login = hist.login \/ r.err = "reauth"])
             ELSE IF Cardinality(DOMAIN r.dates) = 0
             THEN ParseLoop(Tail(todo), answers, anchor, res, hist)
             ELSE ParseLoop(Tail(todo), answers, anchor, Append(res, [Name |-> name, Dates |-> r.dates]), hist)

\* ParseRefugeAvailability: the loop over refugeIDs (in the order todo) and
\* the return.  Result: [res, err, hist, partial]; partial: the call failed
\* after dates had been extracted
ParseLoop(todo, answers, anchor, res, hist) ==
    IF todo = <<>>
    THEN IF TotalDates(res) = 0
         THEN [res |-> <<>>, err |-> "nodates", hist |-> hist, partial |-> FALSE]
         ELSE [res |-> res, err |-> "none", hist |-> hist, partial |-> FALSE]
    ELSE LET name == Head(todo)
             chain == answers[name]
         IN  IF ~chain[1].ok
             THEN \* return nil, err
                  [res |-> <<>>, err |-> "transport", hist |-> [hist EXCEPT !.reqFailed = TRUE], partial |-> res # <<>>]
             ELSE LET r == parseRefugeContent(chain, 1, anchor)
                  IN  IF r.err # "none"
                      THEN \* "Warning: Failed to parse HTML", continue
                           ParseLoop(Tail(todo), answers, anchor, res, [hist EXCEPT !.login = hist.login \/ r.err = "reauth"])
                      ELSE IF Cardinality(DOMAIN r.dates) = 0
                      THEN \* "Warning: No dates found", continue
                           ParseLoop(Tail(todo), answers, anchor, res, hist)
                      ELSE ParseLoop(Tail(todo), answers, anchor, Append(res, [Name |-> name, Dates |-> r.dates]), hist)

ParseRefugeAvailability(order, answers, anchor) == ParseLoop(order, answers, anchor, <<>>, NoHist)

\* every result ParseRefugeAvailability can have for an anchor
ParseOutcomes(anchor) == {ParseRefugeAvailability(o, a, anchor) : o \in Perms(RefugeNames), a \in [RefugeNames -> Chains]}

JoinHist(g, h) == [login |-> g.login \/ h.login, reqFailed |-> g.reqFailed \/ h.reqFailed]

RECURSIVE WindowOutcomes(_, _)
\* fetchRefugesWindow from anchor i on, sofar being the possible values of
\* (merged, hist) before it.  Result: [refuges, err, hist, partial]
WindowOutcomes(i, sofar) ==
    IF i > NumAnchors
    THEN UNION {{[refuges |-> out, err |-> "none", hist |-> s.hist, partial |-> FALSE] : out \in Flatten(s.merged)} : s \in sofar}
    ELSE LET P == ParseOutcomes(Anchor(i))
             failed == {[refuges |-> <<>>, err |-> x[2].err, hist |-> JoinHist(x[1].hist, x[2].hist), partial |-> DOMAIN x[1].merged # {} \/ x[2].partial] : x \in sofar \X {p \in P : p.err # "none"}}
             next == {[merged |-> MergeRefuges(x[1].merged, x[2].res), hist |-> JoinHist(x[1].hist, x[2].hist)] : x \in sofar \X {p \in P : p.err = "none"}}
         IN  failed \cup WindowOutcomes(i + 1, next)

\* every result fetchRefugesWindow can have
FetchOutcomes == WindowOutcomes(1, {[merged |-> <<>>, hist |-> NoHist]})

(***************************************************************************)
(* The store (PgStore) as the polling loop reads it.                       *)
(***************************************************************************)
\* ListSubscribers: the rows with is_active = true
ActiveSubs == {c \in DOMAIN subscribers : subscribers[c].IsActive}

\* ListQueriesByChat: the rows of one chat
ListQueriesByChat(chatID) == {q \in queries : q.ChatID = chatID}

(***************************************************************************)
(* Notifications.  A notification is recorded as                           *)
(*   [kind, entries, listing, to, failedAt, failed, err]                   *)
(* kind: which message; entries: the (refuge, date, status) lines in it;   *)
(* listing: what ListSubscribers gave the sender ("rows", "empty" or       *)
(* "error"); to: the recipients attempted, in order; failedAt: the         *)
(* positions of to whose send failed; failed: the recipients at those      *)
(* positions; err: the error the sending function returned.                *)
(***************************************************************************)
\* what the environment decides about one broadcast: ListSubscribers fails
\* (or not), the order of its rows, the positions of the recipient list at
\* which the send fails
SendChoices ==
    {[listOk |-> ok, order |-> o, bad |-> f] :
        ok \in BOOLEAN, o \in Perms(ActiveSubs), f \in SUBSET (1..(Cardinality(ActiveSubs) + Len(env.chatIDs)))}

\* no recipient attempted yet
NoAttempt == [to |-> <<>>, failedAt |-> {}]

RECURSIVE SendLoop(_, _, _)
\* a variant of the loop that returns at the first send that fails
SendLoopAborting(ids, bad, done) ==
    IF Len(done.to) = Len(ids) \/ done.failedAt # {} THEN done
    ELSE LET i == Len(done.to) + 1
         IN  SendLoop(ids, bad, [to |-> Append(done.to, ids[i]), failedAt |-> done.failedAt \cup ({i} \cap bad)])

\* for _, s := range subs { _ = telegram.SendMessageTo(...) } and
\* for _, chatID := range ids { ... if err != nil { log; continue } ... }
SendLoop(ids, bad, done) ==
    IF Len(done.to) = Len(ids) THEN done
    ELSE LET i == Len(done.to) + 1
         IN  SendLoop(ids, bad, [to |-> Append(done.to, ids[i]), failedAt |-> done.failedAt \cup ({i} \cap bad)])

\* the record of one notification
Notification(kind, entries, listing, sent, err) ==
    [kind |-> kind, entries |-> entries, listing |-> listing, to |-> sent.to, failedAt |-> sent.failedAt,
     failed |-> {sent.to[i] : i \in sent.failedAt}, err |-> err]

\* telegram.SendMessage: every id of TELEGRAM_CHAT_IDS, or a configuration error
SendMessage(kind, entries, listing, ch) ==
    IF ~env.token \/ env.chatIDs = <<>>
    THEN Notification(kind, entries, listing, NoAttempt, TRUE)
    ELSE Notification(kind, entries, listing, SendLoop(env.chatIDs, ch.bad, NoAttempt), FALSE)

\* SendMessageTo fails for every recipient without a bot token
SendMessageTo(ids, ch) == IF env.token THEN ch.bad ELSE 1..Len(ids)

\* subs, err := st.ListSubscribers() as the sender sees it
Listing(ch) == IF ~ch.listOk THEN "error" ELSE IF Len(ch.order) > 0 THEN "rows" ELSE "empty"

\* a variant that sends to the configured recipients as well
sendToSubscribersAndEnv(kind, entries, ch) ==
    IF ch.listOk /\ Len(ch.order) > 0
    THEN Notification(kind, entries, Listing(ch), SendLoop(ch.order \o env.chatIDs, SendMessageTo(ch.order, ch), NoAttempt), FALSE)
    ELSE SendMessage(kind, entries, Listing(ch), ch)

\* sendToSubscribersOrEnv (st is never nil in main)
sendToSubscribersOrEnv(kind, entries, ch) ==
    IF ch.listOk /\ Len(ch.order) > 0
    THEN Notification(kind, entries, Listing(ch), SendLoop(ch.order, SendMessageTo(ch.order, ch), NoAttempt), FALSE)
    ELSE SendMessage(kind, entries, Listing(ch), ch)

(***************************************************************************)
(* The dedup scan of the polling loop.                                     *)
(***************************************************************************)
\* variants of the test, each without one of its two conjuncts
QualifiesIgnoringNotified(status, date, notified) == status # "Full"

QualifiesIgnoringStatus(status, date, notified) == date \notin notified

\* if status != "Full" && !notifiedDates[date]
Qualifies(status, date, notified) == status # "Full" /\ date \notin notified

\* a variant that keeps only the dates just marked
MarkOnly(notified, dates) == dates

\* notifiedDates[date] = true, for each date of a set
MarkNotified(notified, dates) == notified \cup dates

RECURSIVE ScanRefuges(_, _)
\* a variant of the scan that collects the new entries and marks nothing,
\* leaving the marking to the lines that reach a subscriber
ScanRefugesUnmarked(rs, notified) ==
    IF rs = <<>> THEN [new |-> {}, notified |-> notified]
    ELSE LET r == Head(rs)
             fresh == {d \in DOMAIN r.Dates : Qualifies(r.Dates[d], d, notified)}
             rest == ScanRefuges(Tail(rs), notified)
         IN  [new |-> {[refuge |-> r.Name, date |-> d, status |-> r.Dates[d]] : d \in fresh} \cup rest.new,
              notified |-> rest.notified]

\* a variant of the scan that marks the dates of a refuge only after the
\* refuges behind it have been scanned, as a set keyed by (refuge, date) would
ScanRefugesMarkingLast(rs, notified) ==
    IF rs = <<>> THEN [new |-> {}, notified |-> notified]
    ELSE LET r == Head(rs)
             fresh == {d \in DOMAIN r.Dates : Qualifies(r.Dates[d], d, notified)}
             rest == ScanRefuges(Tail(rs), notified)
         IN  [new |-> {[refuge |-> r.Name, date |-> d, status |-> r.Dates[d]] : d \in fresh} \cup rest.new,
              notified |-> MarkNotified(rest.notified, fresh)]

\* for _, refuge := range refuges { for date, status := range refuge.Dates {...} }
ScanRefuges(rs, notified) ==
    IF rs = <<>> THEN [new |-> {}, notified |-> notified]
    ELSE LET r == Head(rs)
             fresh == {d \in DOMAIN r.Dates : Qualifies(r.Dates[d], d, notified)}
             rest == ScanRefuges(Tail(rs), MarkNotified(notified, fresh))
         IN  [new |-> {[refuge |-> r.Name, date |-> d, status |-> r.Dates[d]] : d \in fresh} \cup rest.new,
              notified |-> rest.notified]

\* the general message prints the groups of the two known refuges
GeneralEntries(new) == {a \in new : a.refuge \in {TeteRousse, DuGouter}}

\* what the environment decides about the fan-out to one subscriber:
\* ListQueriesByChat fails, or the message is sent, or its send fails
Fates == {"queryError", "sent", "sendError"}

RECURSIVE FanOut(_, _, _, _)
\* a variant in which a subscriber takes its lines out of newAvailabilities,
\* so that the subscribers after it are not offered them
FanOutClaiming(order, new, fate, notified) ==
    IF order = <<>> THEN [msgs |-> <<>>, notified |-> notified, processed |-> <<>>]
    ELSE LET sub == Head(order)
             qs == ListQueriesByChat(sub)
             lines == {a \in new : \E q \in qs : queryMatches(a.refuge, a.date, q)}
         IN  IF fate[sub] = "queryError" THEN FanOut(Tail(order), new, fate, notified)
             ELSE LET r == FanOut(Tail(order), new \ lines, fate, MarkNotified(notified, {a.date : a \in lines}))
                      failedAt == IF fate[sub] = "sendError" \/ ~env.token THEN {1} ELSE {}
                      msg == Notification("subscription", lines, "rows", [to |-> <<sub>>, failedAt |-> failedAt], FALSE)
                  IN  [r EXCEPT !.processed = <<sub>> \o r.processed,
                                !.msgs = IF lines = {} THEN r.msgs ELSE <<msg>> \o r.msgs]

\* the per-subscriber loop: for _, sub := range subs { ... }
FanOut(order, new, fate, notified) ==
    IF order = <<>> THEN [msgs |-> <<>>, notified |-> notified, processed |-> <<>>]
    ELSE LET sub == Head(order)
             qs == ListQueriesByChat(sub)
             lines == {a \in new : \E q \in qs : queryMatches(a.refuge, a.date, q)}
             marked == MarkNotified(notified, {a.date : a \in lines})
         IN  IF fate[sub] = "queryError" THEN FanOut(Tail(order), new, fate, notified)
             ELSE IF qs = {}
             THEN LET r == FanOut(Tail(order), new, fate, notified)
                  IN  [r EXCEPT !.processed = <<sub>> \o r.processed]
             ELSE LET r == FanOut(Tail(order), new, fate, marked)
                      failedAt == IF fate[sub] = "sendError" \/ ~env.token THEN {1} ELSE {}
                      msg == Notification("subscription", lines, "rows", [to |-> <<sub>>, failedAt |-> failedAt], FALSE)
                  IN  [r EXCEPT !.processed = <<sub>> \o r.processed,
                                !.msgs = IF lines = {} THEN r.msgs ELSE <<msg>> \o r.msgs]

(***************************************************************************)
(* web.UpdateState                                                         *)
(***************************************************************************)
\* time.Now() of the current tick (never the zero time)
Now == cycle + 1

UpdateState(refs, lastCheck) == [Refuges |-> refs, LastCheck |-> IF lastCheck # 0 THEN lastCheck ELSE state.LastCheck]

(***************************************************************************)
(* The two implementations of Store, BoltStore and PgStore.  A bucket and  *)
(* a table are sets of rows; an error is "nil" or the name of the error.   *)
(***************************************************************************)
EmptyDB == [subs |-> {}, qs |-> {}]

\* Subscriber{} and Query{}
ZeroSubscriber == [ChatID |-> <<>>, Language |-> "", Plan |-> "", IsActive |-> FALSE]

ZeroQuery == [ID |-> <<>>, ChatID |-> <<>>, Refuge |-> "", DateFrom |-> <<>>, DateTo |-> <<>>]

\* if sub.Plan == "" { sub.Plan = "free" }
DefaultPlan(sub) == [sub EXCEPT !.Plan = IF sub.Plan = "" THEN "free" ELSE sub.Plan]

\* a variant of bucket.Put that adds the value and keeps what the key held
PutBeside(rows, keyField, v) == rows \cup {v}

\* bucket.Put(key, value): the value replaces what the key held
Put(rows, keyField, v) == {r \in rows : r[keyField] # v[keyField]} \cup {v}

BoltUpsertSubscriber(db, sub) ==
    IF sub.ChatID = <<>> THEN [db |-> db, err |-> "chat id required"]
    ELSE [db |-> [db EXCEPT !.subs = Put(db.subs, "ChatID", [DefaultPlan(sub) EXCEPT !.IsActive = TRUE])], err |-> "nil"]

BoltGetSubscriber(db, chatID) ==
    IF \E r \in db.subs : r.ChatID = chatID
    THEN [val |-> CHOOSE r \in db.subs : r.ChatID = chatID, err |-> "nil"]
    ELSE [val |-> ZeroSubscriber, err |-> "ErrNotFound"]

\* every row of the bucket
BoltListSubscribers(db) == [val |-> db.subs, err |-> "nil"]

BoltDeactivateSubscriber(db, chatID) ==
    LET got == BoltGetSubscriber(db, chatID)
    IN  IF got.err # "nil" THEN [db |-> db, err |-> got.err]
        ELSE BoltUpsertSubscriber(db, [got.val EXCEPT !.IsActive = FALSE])

\* q.ID = fmt.Sprintf("%s-%d", q.ChatID, now.UnixNano()) when it is empty
BoltAddQuery(db, q, now) ==
    LET id == IF q.ID = <<>> THEN <<q.ChatID, now>> ELSE q.ID
    IN  [db |-> [db EXCEPT !.qs = Put(db.qs, "ID", [q EXCEPT !.ID = id])], val |-> id, err |-> "nil"]

BoltListQueriesByChat(db, chatID) == [val |-> {q \in db.qs : q.ChatID = chatID}, err |-> "nil"]

\* insert ... on conflict (chat_id) do update set every column but created_at
PgUpsertSubscriber(db, sub) ==
    [db |-> [db EXCEPT !.subs = {r \in db.subs : r.ChatID # sub.ChatID} \cup {DefaultPlan(sub)}], err |-> "nil"]

\* QueryRow(...).Scan: the error of a select without a row is pgx.ErrNoRows
PgGetSubscriber(db, chatID) ==
    IF \E r \in db.subs : r.ChatID = chatID
    THEN [val |-> CHOOSE r \in db.subs : r.ChatID = chatID, err |-> "nil"]
    ELSE [val |-> ZeroSubscriber, err |-> "pgx.ErrNoRows"]

\* select ... where is_active=true
PgListSubscribers(db) == [val |-> {r \in db.subs : r.IsActive}, err |-> "nil"]

\* update ... set is_active=false where chat_id=$1
PgDeactivateSubscriber(db, chatID) ==
    [db |-> [db EXCEPT !.subs = {IF r.ChatID = chatID THEN [r EXCEPT !.IsActive = FALSE] ELSE r : r \in db.subs}], err |-> "nil"]

\* insert into subscriptions: id is the primary key, chat_id references
\* subscribers(chat_id)
PgAddQuery(db, q, now) ==
    LET id == IF q.ID = <<>> THEN <<q.ChatID, now>> ELSE q.ID
    IN  IF \E r \in db.qs : r.ID = id THEN [db |-> db, val |-> <<>>, err |-> "duplicate key"]
        ELSE IF ~\E r \in db.subs : r.ChatID = q.ChatID THEN [db |-> db, val |-> <<>>, err |-> "foreign key"]
        ELSE [db |-> [db EXCEPT !.qs = db.qs \cup {[q EXCEPT !.ID = id]}], val |-> id, err |-> "nil"]

PgListQueriesByChat(db, chatID) == [val |-> {q \in db.qs : q.ChatID = chatID}, err |-> "nil"]

\* what a call returned when it returns only an error
NoVal == <<>>

NoResult == [val |-> NoVal, err |-> "nil"]

\* no call was made on the stores yet
NoStoreCall == [n |-> 0, op |-> "none", sub |-> ZeroSubscriber, q |-> ZeroQuery, id |-> <<>>, now |-> 0,
                before |-> [bolt |-> NoResult, pg |-> NoResult], bolt |-> NoResult, pg |-> NoResult]

(***************************************************************************)
(* Initial state: main has read its configuration and opened the store,    *)
(* and is about to make the initial availability check.                    *)
(***************************************************************************)
Row(chatID) == [ChatID |-> chatID, Language |-> "en", Plan |-> "free", IsActive |-> TRUE]

AnyQuery(chatID) == [ID |-> <<chatID, 1>>, ChatID |-> chatID, Refuge |-> "*", DateFrom |-> <<>>, DateTo |-> <<>>]

GouterUntil(chatID) == [ID |-> <<chatID, 2>>, ChatID |-> chatID, Refuge |-> DuGouter, DateFrom |-> <<>>, DateTo |-> <<2025, 8, 3>>]

\* the environment and the contents of the store when the process starts
Deployments ==
    {[env |-> [token |-> TRUE, chatIDs |-> <<EnvChat>>, dbURL |-> TRUE], subs |-> <<>>, queries |-> {}],
     [env |-> [token |-> FALSE, chatIDs |-> <<>>, dbURL |-> TRUE], subs |-> <<>>, queries |-> {}],
     [env |-> [token |-> TRUE, chatIDs |-> <<EnvChat>>, dbURL |-> TRUE], subs |-> [c \in {ChatA, ChatB} |-> Row(c)], queries |-> {AnyQuery(ChatA), GouterUntil(ChatB)}],
     [env |-> [token |-> TRUE, chatIDs |-> <<>>, dbURL |-> TRUE], subs |-> [c \in {ChatA, ChatB} |-> Row(c)], queries |-> {GouterUntil(ChatA)}],
     \* TELEGRAM_CHAT_IDS=900,900
     [env |-> [token |-> TRUE, chatIDs |-> <<EnvChat, EnvChat>>, dbURL |-> TRUE], subs |-> <<>>, queries |-> {}],
     \* a subscriber who has no query yet
     [env |-> [token |-> TRUE, chatIDs |-> <<>>, dbURL |-> TRUE], subs |-> [c \in {ChatA} |-> Row(c)], queries |-> {}]}

\* no call of queryMatches is followed
NoCall == [refuge |-> "", date |-> <<>>, q |-> [Refuge |-> "", DateFrom |-> <<>>, DateTo |-> <<>>], done |-> FALSE, out |-> FALSE]

NoRequest == [method |-> "none", formOk |-> TRUE, chat_id |-> <<>>, language |-> "", refuge |-> "", date_from |-> <<>>, date_to |-> <<>>]

(***************************************************************************)
(* web.state and its lock.  state.mu is a sync.RWMutex: Lock waits until   *)
(* no goroutine holds the lock, RLock waits until no writer holds it.      *)
(* (RLock also waits while a writer is waiting; leaving that out allows    *)
(* more interleavings, never fewer.)                                       *)
(***************************************************************************)
Handlers == {"handleHome", "handleStatus"}

Writers == {"UpdateState", "StartServer"}

\* a variant of RLock that does not wait for the writer
MayRLockAnyway(m) == TRUE

\* state.mu.RLock() returns
MayRLock(m) == m.writer = "none"

\* state.mu.Lock() returns
MayLock(m) == m.writer = "none" /\ m.readers = {}

\* the zero time.Time
ZeroTime == 0

\* the refuges main passes in its k-th call of UpdateState
Snapshot(k) == [i \in 1..k |-> [Name |-> IF i % 2 = 1 THEN TeteRousse ELSE DuGouter, Dates |-> <<>>]]

NoRead == [pc |-> "idle", Refuges |-> <<>>, LastCheck |-> ZeroTime]

NoUpdate == [pc |-> "idle", n |-> 0, refuges |-> <<>>, lastCheck |-> ZeroTime]

lockVars == <<mu, updater, server, handlers, left, clock>>

\* no call of parseRefugeContent is followed
NoParse == [chain |-> <<>>, anchor |-> monthStart, done |-> FALSE, err |-> "none", dates |-> <<>>]

\* the variables of the units that are exercised alone
\* no update reached the webhook
NoTelegramUpdate == [kind |-> "none", chat |-> <<>>, text |-> "", language_code |-> ""]

NoHook == [update |-> NoTelegramUpdate, greeted |-> {}, stopped |-> {}]

\* nothing allocated, nobody running
NoHeap == [pc |-> "idle", calls |-> 0, anchor |-> 0, res |-> <<>>, merged |-> <<>>, mem |-> <<>>, next |-> 1,
           writing |-> {}, out |-> 0, Refuges |-> 0, home |-> [pc |-> "idle", view |-> 0], handed |-> {}]

unitVars == <<parse, hook, heap>>

UnitsIdle == parse = NoParse /\ hook = NoHook /\ heap = NoHeap

\* nobody uses web.state
LockIdle ==
    /\ mu = [writer |-> "none", readers |-> {}]
    /\ updater = NoUpdate
    /\ server = "start"
    /\ handlers = [h \in Handlers |-> NoRead]
    /\ left = [w \in Writers |-> {}]
    /\ clock = 1

storeVars == <<boltDB, pgDB, call>>

\* the two stores are empty and no call was made on them
StoreIdle == boltDB = EmptyDB /\ pgDB = EmptyDB /\ call = NoStoreCall

\* the variables of the web server, of the followed queryMatches call and
\* of the two stores
otherVars == <<qm, request, response, ops, served, boltDB, pgDB, call, mu, updater, server, handlers, left, clock, parse, hook, heap>>

OthersIdle == qm = NoCall /\ request = NoRequest /\ response = 0 /\ ops = <<>> /\ served = 0 /\ StoreIdle /\ LockIdle /\ UnitsIdle

Init ==
    /\ OthersIdle
    /\ mode \in {"general", "perSubscriber"}
    /\ \E d \in Deployments : env = d.env /\ subscribers = d.subs /\ queries = d.queries
    /\ pc = "fetch"
    /\ phase = "startup"
    /\ cycle = 0
    /\ sigPending = FALSE
    /\ notifiedDates = {}
    /\ state = [Refuges |-> <<>>, LastCheck |-> 0]
    /\ refuges = <<>>
    /\ fetchErr = "none"
    /\ sawLogin = FALSE
    /\ reqFailed = FALSE
    /\ partial = FALSE
    /\ lastSent = <<>>
    /\ processed = <<>>

configVars == <<mode, env, subscribers, queries>>

fetchVars == <<refuges, fetchErr, sawLogin, reqFailed, partial>>

(***************************************************************************)
(* main                                                                    *)
(***************************************************************************)
\* refuges, err := fetchRefugesWindow(refugeURL, monthAnchors)
Fetch ==
    /\ pc = "fetch"
    /\ \E o \in FetchOutcomes :
        /\ refuges' = o.refuges
        /\ fetchErr' = o.err
        /\ sawLogin' = o.hist.login
        /\ reqFailed' = o.hist.reqFailed
        /\ partial' = o.partial
    /\ pc' = "fetched"
    /\ UNCHANGED <<phase, cycle, sigPending, notifiedDates, state, lastSent, processed>>
    /\ UNCHANGED configVars
    /\ UNCHANGED otherVars

\* after the initial check: the start message, the web server, the first
\* UpdateState, and the entry into the main loop
Startup ==
    /\ pc = "fetched"
    /\ phase = "startup"
    /\ \E ch \in SendChoices : lastSent' = <<sendToSubscribersOrEnv("start", {}, ch)>>
    /\ state' = IF fetchErr = "none" THEN UpdateState(refuges, Now) ELSE [state EXCEPT !.LastCheck = Now]
    /\ phase' = "loop"
    /\ pc' = "waiting"
    /\ UNCHANGED <<cycle, sigPending, notifiedDates, processed>>
    /\ UNCHANGED configVars
    /\ UNCHANGED otherVars
    /\ UNCHANGED fetchVars

\* case <-ticker.C: a cycle starts
Tick ==
    /\ pc = "waiting"
    /\ cycle < MaxCycles
    /\ cycle' = cycle + 1
    /\ pc' = "fetch"
    /\ refuges' = <<>>
    /\ fetchErr' = "none"
    /\ sawLogin' = FALSE
    /\ reqFailed' = FALSE
    /\ partial' = FALSE
    /\ lastSent' = <<>>
    /\ processed' = <<>>
    /\ UNCHANGED <<phase, sigPending, notifiedDates, state>>
    /\ UNCHANGED configVars
    /\ UNCHANGED otherVars

\* a variant of the loop that gives up after a cycle whose fetch failed
AfterCycleFatal(err) == IF err # "none" THEN "done" ELSE "waiting"

\* where the for loop goes when the tick case ends with the fetch result err:
\* by continue or by reaching the end of the case, back to the select
AfterCycle(err) == "waiting"

\* a variant that takes only a failed request for a failure
FetchFailedInTransport(err) == err = "transport"

\* if err != nil, after fetchRefugesWindow
FetchFailed(err) == err # "none"

\* nobody was reached: every attempt failed, or there was nobody to try
Undelivered(msg) == msg.failedAt = 1..Len(msg.to)

\* a variant that takes the marks of the cycle back when nobody was reached
AfterSendRollingBack(marked, before, msg) == IF Undelivered(msg) THEN before ELSE marked

\* notifiedDates after sendToSubscribersOrEnv has returned: its error is
\* logged and nothing else is done with it
AfterSend(marked, before, msg) == marked

\* the rest of the tick case, general revision (main.go lines 122-206)
CycleGeneral ==
    /\ pc = "fetched"
    /\ phase = "loop"
    /\ mode = "general"
    /\ pc' = AfterCycle(fetchErr)
    /\ IF FetchFailed(fetchErr)
       THEN /\ IF fetchErr = "reauth"
               THEN \E ch \in SendChoices : lastSent' = <<sendToSubscribersOrEnv("reauth", {}, ch)>>
               ELSE lastSent' = <<>>
            /\ UNCHANGED <<notifiedDates, state>>
       ELSE LET scan == ScanRefuges(refuges, notifiedDates)
            IN  /\ state' = UpdateState(refuges, Now)
                /\ IF TotalDates(refuges) = 0
                   THEN /\ \E ch \in SendChoices : lastSent' = <<sendToSubscribersOrEnv("warning", {}, ch)>>
                        /\ notifiedDates' = scan.notified
                   ELSE IF scan.new # {}
                   THEN \E ch \in SendChoices :
                            LET msg == sendToSubscribersOrEnv("availability", GeneralEntries(scan.new), ch)
                            IN  /\ lastSent' = <<msg>>
                                /\ notifiedDates' = AfterSend(scan.notified, notifiedDates, msg)
                   ELSE /\ lastSent' = <<>>
                        /\ notifiedDates' = scan.notified
    /\ UNCHANGED <<phase, cycle, sigPending, processed>>
    /\ UNCHANGED configVars
    /\ UNCHANGED otherVars
    /\ UNCHANGED fetchVars

\* the rest of the tick case, per-subscriber revision (main.go lines 386-502)
CyclePerSubscriber ==
    /\ pc = "fetched"
    /\ phase = "loop"
    /\ mode = "perSubscriber"
    /\ pc' = AfterCycle(fetchErr)
    /\ IF FetchFailed(fetchErr)
       THEN /\ lastSent' = <<>>
            /\ processed' = <<>>
            /\ UNCHANGED <<notifiedDates, state>>
       ELSE LET scan == ScanRefuges(refuges, notifiedDates)
            IN  /\ state' = UpdateState(refuges, Now)
                /\ IF TotalDates(refuges) = 0
                   THEN /\ \E ch \in SendChoices : lastSent' = <<sendToSubscribersOrEnv("warning", {}, ch)>>
                        /\ notifiedDates' = scan.notified
                        /\ processed' = <<>>
                   ELSE IF scan.new # {}
                   THEN \E fan \in {[msgs |-> <<>>, notified |-> scan.notified, processed |-> <<>>]}
                                   \cup {FanOut(o, scan.new, f, scan.notified) : o \in Perms(ActiveSubs), f \in [ActiveSubs -> Fates]} :
                           \* ListSubscribers failed, or the loop over its rows
                           /\ lastSent' = fan.msgs
                           /\ notifiedDates' = fan.notified
                           /\ processed' = fan.processed
                   ELSE /\ lastSent' = <<>>
                        /\ notifiedDates' = scan.notified
                        /\ processed' = <<>>
    /\ UNCHANGED <<phase, cycle, sigPending>>
    /\ UNCHANGED configVars
    /\ UNCHANGED otherVars
    /\ UNCHANGED fetchVars

\* the operating system delivers SIGINT or SIGTERM into sigChan (capacity 1)
Signal ==
    /\ pc # "done"
    /\ ~sigPending
    /\ sigPending' = TRUE
    /\ UNCHANGED <<pc, phase, cycle, notifiedDates, state, lastSent, processed>>
    /\ UNCHANGED configVars
    /\ UNCHANGED otherVars
    /\ UNCHANGED fetchVars

\* case <-sigChan: the shutdown message, then main returns
Shutdown ==
    /\ pc = "waiting"
    /\ sigPending
    /\ sigPending' = FALSE
    /\ \E ch \in SendChoices : lastSent' = <<sendToSubscribersOrEnv("stopped", {}, ch)>>
    /\ pc' = "done"
    /\ UNCHANGED <<phase, cycle, notifiedDates, state, processed>>
    /\ UNCHANGED configVars
    /\ UNCHANGED otherVars
    /\ UNCHANGED fetchVars

\* between two cycles of the per-subscriber revision, handleSubscribe stores
\* the first query of the subscribers
QueryAdded ==
    /\ mode = "perSubscriber"
    /\ pc = "waiting"
    /\ cycle >= 1
    /\ queries = {}
    /\ DOMAIN subscribers # {}
    /\ queries' = {AnyQuery(c) : c \in DOMAIN subscribers}
    /\ UNCHANGED <<mode, env, subscribers>>
    /\ UNCHANGED <<pc, phase, cycle, sigPending, notifiedDates, state, lastSent, processed>>
    /\ UNCHANGED otherVars
    /\ UNCHANGED fetchVars

Next == Fetch \/ Startup \/ Tick \/ CycleGeneral \/ CyclePerSubscriber \/ QueryAdded \/ Signal \/ Shutdown

Spec == Init /\ [][Next]_vars

\* the polling loop does not run
PollingOff ==
    /\ mode = "general"
    /\ pc = "off" /\ phase = "startup" /\ cycle = 0 /\ sigPending = FALSE
    /\ notifiedDates = {} /\ state = [Refuges |-> <<>>, LastCheck |-> 0]
    /\ refuges = <<>> /\ fetchErr = "none" /\ sawLogin = FALSE /\ reqFailed = FALSE /\ partial = FALSE
    /\ lastSent = <<>> /\ processed = <<>>

pollVars == <<pc, phase, cycle, sigPending, notifiedDates, state, refuges, fetchErr, sawLogin, reqFailed, partial, lastSent, processed>>

(***************************************************************************)
(* queryMatches, called on its own.                                        *)
(***************************************************************************)
\* date strings: three days of the calendar, and two texts time.Parse rejects
QMDates == {<<2025, 8, 3>>, <<2025, 8, 10>>, <<2025, 9, 1>>, <<2025, 2, 30>>, <<2025, 8>>}

QMQueries == [Refuge : {"*", TeteRousse, DuGouter}, DateFrom : QMDates \cup {<<>>}, DateTo : QMDates \cup {<<>>}]

InitQM ==
    /\ PollingOff
    /\ env = [token |-> FALSE, chatIDs |-> <<>>, dbURL |-> FALSE] /\ subscribers = <<>> /\ queries = {}
    /\ request = NoRequest /\ response = 0 /\ ops = <<>> /\ served = 0
    /\ StoreIdle
    /\ LockIdle
    /\ UnitsIdle
    /\ qm \in [refuge : RefugeNames, date : QMDates, q : QMQueries, done : {FALSE}, out : {FALSE}]

\* the call returns
QueryMatchesCall ==
    /\ ~qm.done
    /\ qm' = [qm EXCEPT !.done = TRUE, !.out = queryMatches(qm.refuge, qm.date, qm.q)]
    /\ UNCHANGED <<request, response, ops, served>>
    /\ UNCHANGED storeVars
    /\ UNCHANGED lockVars
    /\ UNCHANGED unitVars
    /\ UNCHANGED configVars
    /\ UNCHANGED pollVars

NextQM == QueryMatchesCall

SpecQM == InitQM /\ [][NextQM]_vars

(***************************************************************************)
(* The web server: POST /subscribe.                                        *)
(***************************************************************************)
\* a variant that lets the two neighbours of the digits pass
digitsOnlyWide(s) == s # <<>> /\ \A i \in DOMAIN s : ~(s[i] < 47 \/ s[i] > 58)

\* digitsOnly: '0' is 48 and '9' is 57
digitsOnly(s) == s # <<>> /\ \A i \in DOMAIN s : ~(s[i] < 48 \/ s[i] > 57)

\* chat_id values: "", "101", "1", "10", "/", ":", "1a", "-1", "1 " and U+0663
ChatIDValues == {<<>>, ChatA, <<49>>, <<49, 48>>, <<47>>, <<58>>, <<49, 97>>, <<45, 49>>, <<49, 32>>, <<1635>>}

FormDates == {<<>>, <<2025, 8, 3>>, <<2025, 8, 10>>, <<2025, 8>>}

\* the requests a client can make to /subscribe
Requests ==
    {[NoRequest EXCEPT !.method = "GET"], [NoRequest EXCEPT !.method = "POST", !.formOk = FALSE]}
    \cup [method : {"POST"}, formOk : {TRUE}, chat_id : ChatIDValues, language : {"", "en", "xx"},
          refuge : {"", "*", DuGouter, "Other"}, date_from : FormDates, date_to : FormDates]

allowedLang == {"en", "de", "fr", "es", "it"}

allowedRefuge == {"*", TeteRousse, DuGouter}

\* the status of the checks handleSubscribe makes before it opens the store,
\* 0 when the request passes them all
Validate(r) ==
    IF r.method # "POST" THEN 303
    ELSE IF ~r.formOk THEN 400
    ELSE IF r.chat_id = <<>> THEN 400
    ELSE IF ~digitsOnly(r.chat_id) THEN 400
    ELSE IF r.language # "" /\ r.language \notin allowedLang THEN 400
    ELSE IF r.refuge # "" /\ r.refuge \notin allowedRefuge THEN 400
    ELSE IF r.date_from # <<>> /\ r.date_to # <<>> /\ (~ParseDate(r.date_from).ok \/ ~ParseDate(r.date_to).ok) THEN 400
    ELSE IF r.date_from # <<>> /\ r.date_to # <<>> /\ ParseDate(r.date_from).t > ParseDate(r.date_to).t THEN 400
    ELSE IF ~env.dbURL THEN 500
    ELSE 0

\* PgStore.UpsertSubscriber of Subscriber{ChatID, Language, IsActive: true}
UpsertSubscriber(subs, chatID, language) ==
    [c \in DOMAIN subs \cup {chatID} |->
        IF c = chatID THEN [ChatID |-> chatID, Language |-> language, Plan |-> "free", IsActive |-> TRUE] ELSE subs[c]]

\* PgStore.AddQuery: the id is the chat id and the time of the call
AddQuery(qs, chatID, r, now) ==
    qs \cup {[ID |-> <<chatID, now>>, ChatID |-> chatID, Refuge |-> r.refuge, DateFrom |-> r.date_from, DateTo |-> r.date_to]}

\* notifyAdmins: one SendMessageTo for each id of TELEGRAM_CHAT_IDS
notifyAdmins == [i \in DOMAIN env.chatIDs |-> <<"SendMessageTo", env.chatIDs[i], "nil">>]

\* what the store does to the handler's calls
StoreOutcomes == {"openError", "upsertError", "addQueryError", "ok"}

InitWeb ==
    /\ PollingOff
    /\ qm = NoCall
    /\ env \in {[token |-> TRUE, chatIDs |-> <<EnvChat>>, dbURL |-> TRUE], [token |-> FALSE, chatIDs |-> <<>>, dbURL |-> FALSE]}
    /\ \/ subscribers = <<>> /\ queries = {}
       \/ subscribers = [c \in {ChatA} |-> Row(c)] /\ queries = {AnyQuery(ChatA)}
    /\ request = NoRequest /\ response = 0 /\ ops = <<>> /\ served = 0
    /\ StoreIdle
    /\ LockIdle
    /\ UnitsIdle

\* a client sends a request to /subscribe
Receive ==
    /\ request = NoRequest \/ response # 0
    /\ served < MaxRequests
    /\ request' \in Requests
    /\ response' = 0
    /\ ops' = <<>>
    /\ served' = served + 1
    /\ UNCHANGED <<qm>>
    /\ UNCHANGED storeVars
    /\ UNCHANGED lockVars
    /\ UNCHANGED unitVars
    /\ UNCHANGED configVars
    /\ UNCHANGED pollVars

\* handleSubscribe
HandleSubscribe ==
    /\ request # NoRequest
    /\ response = 0
    /\ LET v == Validate(request)
           id == request.chat_id
       IN  IF v # 0
           THEN response' = v /\ ops' = <<>> /\ UNCHANGED <<subscribers, queries>>
           ELSE \E o \in StoreOutcomes :
                  /\ response' = IF o \in {"openError", "upsertError"} THEN 500 ELSE 303
                  /\ ops' = IF o = "openError" THEN <<>>
                            ELSE IF o = "upsertError" THEN <<<<"UpsertSubscriber", id, "error">>>>
                            ELSE <<<<"UpsertSubscriber", id, "nil">>,
                                   <<"AddQuery", id, IF o = "addQueryError" THEN "error" ELSE "nil">>,
                                   <<"SendMessageTo", id, "nil">>>> \o notifyAdmins
                  /\ subscribers' = IF o \in {"openError", "upsertError"} THEN subscribers
                                    ELSE UpsertSubscriber(subscribers, id, request.language)
                  /\ queries' = IF o = "ok" THEN AddQuery(queries, id, request, served) ELSE queries
    /\ UNCHANGED <<qm, request, served, mode, env>>
    /\ UNCHANGED storeVars
    /\ UNCHANGED lockVars
    /\ UNCHANGED unitVars
    /\ UNCHANGED pollVars

NextWeb == Receive \/ HandleSubscribe

SpecWeb == InitWeb /\ [][NextWeb]_vars

(***************************************************************************)
(* The Store interface: one sequence of calls, made on a BoltStore and on  *)
(* a PgStore that both start empty.                                        *)
(***************************************************************************)
StoreIDs == {ChatA, ChatB}

\* the subscribers callers pass to UpsertSubscriber
StoreSubs == [ChatID : StoreIDs \cup {<<>>}, Language : {"en", "fr"}, Plan : {"", "pro"}, IsActive : BOOLEAN]

\* the queries callers pass to AddQuery, all without an ID
StoreQueries == [ID : {<<>>}, ChatID : StoreIDs, Refuge : {"*", DuGouter}, DateFrom : {<<>>}, DateTo : {<<>>}]

\* time.Now() of a call: the reading of the call before it, or a later one
ClockReadings == {call.now, call.now + 1}

InitStore ==
    /\ PollingOff
    /\ env = [token |-> FALSE, chatIDs |-> <<>>, dbURL |-> FALSE] /\ subscribers = <<>> /\ queries = {}
    /\ qm = NoCall /\ request = NoRequest /\ response = 0 /\ ops = <<>> /\ served = 0
    /\ StoreIdle
    /\ LockIdle
    /\ UnitsIdle

nonStoreVars == <<qm, request, response, ops, served, configVars, pollVars, lockVars, unitVars>>

\* what the two stores held for a chat id before a call
Before(chatID) == [bolt |-> BoltGetSubscriber(boltDB, chatID), pg |-> PgGetSubscriber(pgDB, chatID)]

CallUpsertSubscriber ==
    /\ call.n < MaxCalls
    /\ \E sub \in StoreSubs :
          LET b == BoltUpsertSubscriber(boltDB, sub)
              p == PgUpsertSubscriber(pgDB, sub)
          IN  /\ boltDB' = b.db
              /\ pgDB' = p.db
              /\ call' = [NoStoreCall EXCEPT !.n = call.n + 1, !.op = "UpsertSubscriber", !.sub = sub, !.id = sub.ChatID,
                                             !.now = call.now, !.before = Before(sub.ChatID),
                                             !.bolt = [val |-> NoVal, err |-> b.err], !.pg = [val |-> NoVal, err |-> p.err]]
    /\ UNCHANGED nonStoreVars

CallGetSubscriber ==
    /\ call.n < MaxCalls
    /\ \E id \in StoreIDs :
          call' = [NoStoreCall EXCEPT !.n = call.n + 1, !.op = "GetSubscriber", !.id = id, !.now = call.now,
                                     !.bolt = BoltGetSubscriber(boltDB, id), !.pg = PgGetSubscriber(pgDB, id)]
    /\ UNCHANGED <<boltDB, pgDB>>
    /\ UNCHANGED nonStoreVars

CallListSubscribers ==
    /\ call.n < MaxCalls
    /\ call' = [NoStoreCall EXCEPT !.n = call.n + 1, !.op = "ListSubscribers", !.now = call.now,
                                   !.bolt = BoltListSubscribers(boltDB), !.pg = PgListSubscribers(pgDB)]
    /\ UNCHANGED <<boltDB, pgDB>>
    /\ UNCHANGED nonStoreVars

CallDeactivateSubscriber ==
    /\ call.n < MaxCalls
    /\ \E id \in StoreIDs :
          LET b == BoltDeactivateSubscriber(boltDB, id)
              p == PgDeactivateSubscriber(pgDB, id)
          IN  /\ boltDB' = b.db
              /\ pgDB' = p.db
              /\ call' = [NoStoreCall EXCEPT !.n = call.n + 1, !.op = "DeactivateSubscriber", !.id = id,
                                             !.now = call.now, !.before = Before(id),
                                             !.bolt = [val |-> NoVal, err |-> b.err], !.pg = [val |-> NoVal, err |-> p.err]]
    /\ UNCHANGED nonStoreVars

CallAddQuery ==
    /\ call.n < MaxCalls
    /\ \E q \in StoreQueries, now \in ClockReadings :
          LET b == BoltAddQuery(boltDB, q, now)
              p == PgAddQuery(pgDB, q, now)
          IN  /\ boltDB' = b.db
              /\ pgDB' = p.db
              /\ call' = [NoStoreCall EXCEPT !.n = call.n + 1, !.op = "AddQuery", !.q = q, !.id = q.ChatID,
                                             !.now = now, !.before = Before(q.ChatID),
                                             !.bolt = [val |-> b.val, err |-> b.err], !.pg = [val |-> p.val, err |-> p.err]]
    /\ UNCHANGED nonStoreVars

CallListQueriesByChat ==
    /\ call.n < MaxCalls
    /\ \E id \in StoreIDs :
          call' = [NoStoreCall EXCEPT !.n = call.n + 1, !.op = "ListQueriesByChat", !.id = id, !.now = call.now,
                                     !.bolt = BoltListQueriesByChat(boltDB, id), !.pg = PgListQueriesByChat(pgDB, id)]
    /\ UNCHANGED <<boltDB, pgDB>>
    /\ UNCHANGED nonStoreVars

NextStore ==
    \/ CallUpsertSubscriber \/ CallGetSubscriber \/ CallListSubscribers
    \/ CallDeactivateSubscriber \/ CallAddQuery \/ CallListQueriesByChat

SpecStore == InitStore /\ [][NextStore]_vars

(***************************************************************************)
(* SpecParse: parseRefugeContent alone, on one document.                   *)
(***************************************************************************)
\* the texts of span.date and of a .day.complet entry, split at "/": two
\* day tokens and a text without "/"
ParseDates == Tokens \cup {<<8>>}

\* the texts of span.place: two counts and the empty text
ParsePlaces == {"2", "5", ""}

\* sequences of at most n elements of S
SeqUpTo(S, n) == UNION {[1..k -> S] : k \in 0..n}

\* the documents: any entries, with or without one of the two markers; the
\* request made from the waiting room is answered by a page without entries
ParseDocuments ==
    {[login |-> m = "login", waiting |-> m = "waiting", dispo |-> d, complet |-> c] :
        m \in {"none", "login", "waiting"},
        d \in SeqUpTo([date : ParseDates, place : ParsePlaces], MaxEntries),
        c \in SeqUpTo(ParseDates, MaxEntries)}

\* an anchor in the year the process starts in and one in the next year
ParseAnchors == {monthStart, AddMonths(monthStart, 5)}

InitParse ==
    /\ PollingOff
    /\ env = [token |-> FALSE, chatIDs |-> <<>>, dbURL |-> FALSE] /\ subscribers = <<>> /\ queries = {}
    /\ qm = NoCall /\ request = NoRequest /\ response = 0 /\ ops = <<>> /\ served = 0
    /\ StoreIdle
    /\ LockIdle
    /\ hook = NoHook /\ heap = NoHeap
    /\ \E doc \in ParseDocuments, a \in ParseAnchors :
        parse = [NoParse EXCEPT !.chain = <<[ok |-> TRUE, body |-> doc], [ok |-> TRUE, body |-> EmptyPage]>>, !.anchor = a]

\* the call returns
ParseRefugeContentCall ==
    /\ ~parse.done
    /\ LET r == parseRefugeContent(parse.chain, 1, parse.anchor)
       IN  parse' = [parse EXCEPT !.done = TRUE, !.err = r.err, !.dates = r.dates]
    /\ UNCHANGED <<qm, request, response, ops, served, hook, heap>>
    /\ UNCHANGED storeVars
    /\ UNCHANGED lockVars
    /\ UNCHANGED configVars
    /\ UNCHANGED pollVars

NextParse == ParseRefugeContentCall

SpecParse == InitParse /\ [][NextParse]_vars

(***************************************************************************)
(* SpecHook: the Telegram webhook, the subscription form and the           *)
(* broadcasts of main on one Postgres store.                               *)
(***************************************************************************)
\* the chats that write to the bot: a user, and the admin of TELEGRAM_CHAT_IDS
HookChats == {ChatA, EnvChat}

\* the texts of the messages (after strings.TrimSpace)
HookTexts == {"/start", "/stop", "/id", "/subscribers"}

\* the requests to /telegram/webhook: a GET, a body that is no JSON, an
\* update without message or chat, and a message
Updates ==
    {[NoTelegramUpdate EXCEPT !.kind = k] : k \in {"GET", "badJSON", "noMessage"}}
    \cup {[kind |-> "message", chat |-> c, text |-> t, language_code |-> l] : c \in HookChats, t \in HookTexts, l \in {"", "fr"}}

\* what the store does to the webhook's calls
HookOutcomes == {"openError", "upsertError", "ok"}

\* PgStore.UpsertSubscriber of a row: every column of an existing row is
\* overwritten, is_active included
UpsertSubscriberRow(subs, chatID, language, isActive) ==
    [c \in DOMAIN subs \cup {chatID} |->
        IF c = chatID THEN [ChatID |-> chatID, Language |-> language, Plan |-> "free", IsActive |-> isActive] ELSE subs[c]]

isAdmin(chatID) == chatID \in Range(env.chatIDs)

InitHook ==
    /\ PollingOff
    /\ qm = NoCall /\ request = NoRequest /\ response = 0 /\ ops = <<>> /\ served = 0
    /\ StoreIdle
    /\ LockIdle
    /\ UnitsIdle
    /\ env = [token |-> TRUE, chatIDs |-> <<EnvChat>>, dbURL |-> TRUE]
    /\ subscribers = <<>>
    /\ queries = {}

hookFrame == <<qm, request, storeVars, lockVars, parse, heap, mode, env, pc, phase, cycle, sigPending, notifiedDates, state, refuges, fetchErr, sawLogin, reqFailed, partial, processed>>

\* handleTelegramWebhook
HandleTelegramWebhook ==
    /\ served < MaxMessages
    /\ served' = served + 1
    /\ \E upd \in Updates, o \in HookOutcomes :
        LET lang == IF upd.language_code # "" THEN upd.language_code ELSE "en"
            upsert == <<"UpsertSubscriber", upd.chat, IF o = "upsertError" THEN "error" ELSE "nil">>
            reply(what) == <<"SendMessageTo", upd.chat, what>>
        IN  /\ response' = IF upd.kind = "GET" THEN 405 ELSE IF upd.kind = "badJSON" THEN 400 ELSE 200
            /\ IF upd.kind # "message" \/ o = "openError"
               THEN /\ ops' = <<>>
                    /\ UNCHANGED subscribers
               ELSE /\ subscribers' = IF o = "ok" THEN UpsertSubscriberRow(subscribers, upd.chat, lang, FALSE) ELSE subscribers
                    /\ ops' = IF upd.text = "/id" THEN <<upsert, reply("Your Chat ID")>>
                              ELSE IF upd.text = "/subscribers" /\ isAdmin(upd.chat)
                              THEN <<upsert, <<"ListSubscribers", upd.chat, "nil">>, reply("Subscribers")>>
                              ELSE <<upsert, reply("Subscribed. Send /stop to unsubscribe.")>> \o notifyAdmins
            /\ hook' = [update |-> upd,
                        greeted |-> hook.greeted \cup {ops'[i][2] : i \in {j \in DOMAIN ops' : ops'[j][3] = "Subscribed. Send /stop to unsubscribe."}},
                        stopped |-> IF upd.kind # "message" THEN hook.stopped
                                    ELSE IF upd.text = "/stop" /\ upd.chat \in hook.greeted
                                    THEN hook.stopped \cup {upd.chat} ELSE hook.stopped \ {upd.chat}]
    /\ UNCHANGED <<queries, lastSent>>
    /\ UNCHANGED hookFrame

\* handleSubscribe on a form that passes the checks, the store accepting
\* both writes
SubscribeByForm ==
    /\ served < MaxMessages
    /\ served' = served + 1
    /\ \E c \in HookChats :
        /\ subscribers' = UpsertSubscriber(subscribers, c, "en")
        /\ queries' = AddQuery(queries, c, [refuge |-> "*", date_from |-> <<>>, date_to |-> <<>>], served)
        /\ ops' = <<<<"UpsertSubscriber", c, "nil">>, <<"AddQuery", c, "nil">>, <<"SendMessageTo", c, "nil">>>> \o notifyAdmins
        /\ hook' = [hook EXCEPT !.update = NoTelegramUpdate, !.stopped = @ \ {c}]
    /\ response' = 303
    /\ UNCHANGED lastSent
    /\ UNCHANGED hookFrame

\* main sends a message through sendToSubscribersOrEnv
Broadcast ==
    /\ served > 0
    /\ lastSent = <<>>
    /\ \E ch \in SendChoices : lastSent' = <<sendToSubscribersOrEnv("warning", {}, ch)>>
    /\ UNCHANGED <<subscribers, queries, response, ops, served, hook>>
    /\ UNCHANGED hookFrame

\* the broadcast is over
BroadcastDone ==
    /\ lastSent # <<>>
    /\ lastSent' = <<>>
    /\ UNCHANGED <<subscribers, queries, response, ops, served, hook>>
    /\ UNCHANGED hookFrame

NextHook == HandleTelegramWebhook \/ SubscribeByForm \/ Broadcast \/ BroadcastDone

SpecHook == InitHook /\ [][NextHook]_vars

(***************************************************************************)
(* The snapshots as Go values.  A slice and a map are references: heap.mem *)
(* gives each allocated object its contents, a slice being a sequence of   *)
(* [Name, Dates] with Dates the id of a map.  heap.writing holds the       *)
(* objects a step of main's goroutine is writing, heap.Refuges is          *)
(* web.state.Refuges, heap.home is a request in handleHome with the slice  *)
(* its view model holds, heap.handed is history: the objects that were     *)
(* reachable from an argument of web.UpdateState.                          *)
(***************************************************************************)
\* the Dates maps ParseRefugeAvailability returns in this specification
ParsedMaps ==
    {[d \in {<<2025, 8, 3>>} |-> "2"],
     [d \in {<<2025, 8, 3>>, <<2025, 8, 10>>} |-> IF d = <<2025, 8, 3>> THEN "Full" ELSE "2"]}

\* make(...): a new object with the contents v
Alloc(mem, id, v) == [i \in DOMAIN mem \cup {id} |-> IF i = id THEN v ELSE mem[i]]

\* the object id with the contents v
Store(mem, id, v) == [mem EXCEPT ![id] = v]

\* existing.Dates[d] = s for each d, s of rf.Dates; the same loop fills copyDates
WriteDates(into, from) == [d \in DOMAIN into \cup DOMAIN from |-> IF d \in DOMAIN from THEN from[d] ELSE into[d]]

\* the slices among ids, and the maps their elements refer to
Reach(mem, ids) ==
    LET slices == (ids \ {0}) \cap DOMAIN mem
    IN  slices \cup UNION {{mem[s][i].Dates : i \in DOMAIN mem[s]} : s \in slices}

\* the snapshot a slice holds, as a map from the names to the Dates maps
ByName(mem, slice) ==
    IF slice = 0 THEN <<>>
    ELSE [n \in {mem[slice][i].Name : i \in DOMAIN mem[slice]} |->
            mem[slice][CHOOSE i \in DOMAIN mem[slice] : mem[slice][i].Name = n].Dates]

\* what the garbage collector leaves: the objects somebody still refers to
Collect(h) ==
    LET live == Reach(h.mem, {h.out, h.Refuges, h.home.view})
                \cup {h.merged[n] : n \in DOMAIN h.merged} \cup {h.res[i].Dates : i \in DOMAIN h.res} \cup h.writing
    IN  [h EXCEPT !.mem = [i \in DOMAIN h.mem \cap live |-> h.mem[i]]]

\* a variant that goes on merging into the maps of the snapshot in web.state
MergedFromLast(last) == last

\* merged := make(map[string]parser.Refuge)
NewMerged(last) == <<>>

InitHeap ==
    /\ PollingOff
    /\ env = [token |-> FALSE, chatIDs |-> <<>>, dbURL |-> FALSE] /\ subscribers = <<>> /\ queries = {}
    /\ qm = NoCall /\ request = NoRequest /\ response = 0 /\ ops = <<>> /\ served = 0
    /\ StoreIdle
    /\ LockIdle
    /\ parse = NoParse /\ hook = NoHook
    /\ heap = NoHeap

heapFrame == <<qm, request, response, ops, served, storeVars, lockVars, configVars, pollVars, parse, hook>>

\* refuges, err := fetchRefugesWindow(refugeURL, monthAnchors)
FetchRefugesWindowCall ==
    /\ heap.pc = "idle"
    /\ heap.calls < MaxFetches
    /\ heap' = [heap EXCEPT !.pc = "anchor", !.calls = @ + 1, !.anchor = 1, !.out = 0,
                            !.merged = NewMerged(ByName(heap.mem, heap.Refuges))]
    /\ UNCHANGED heapFrame

\* parser.ParseRefugeAvailability fails: return nil, err, and main goes back
\* to its select
ParseRefugeAvailabilityError ==
    /\ heap.pc = "anchor"
    /\ heap' = Collect([heap EXCEPT !.pc = "idle", !.merged = <<>>])
    /\ UNCHANGED heapFrame

\* parser.ParseRefugeAvailability makes a Dates map for each refuge and
\* starts to fill them
ParseRefugeAvailabilityBegin ==
    /\ heap.pc = "anchor"
    /\ LET a == heap.next
           b == heap.next + 1
       IN  heap' = [heap EXCEPT !.pc = "parsing", !.next = @ + 2, !.writing = {a, b},
                                !.mem = Alloc(Alloc(@, a, <<>>), b, <<>>)]
    /\ UNCHANGED heapFrame

\* the end of an iteration of for _, anchor := range monthAnchors
AnchorDone(h) ==
    IF h.anchor < NumAnchors THEN [h EXCEPT !.pc = "anchor", !.anchor = @ + 1] ELSE [h EXCEPT !.pc = "flatten"]

\* and returns those of the refuges whose content it could parse, in the
\* order of its loop over the refugeIDs map
ParseRefugeAvailabilityEnd ==
    /\ heap.pc = "parsing"
    /\ \E names \in SUBSET RefugeNames, da, db \in ParsedMaps :
         \E p \in Perms(names) :
            LET a == heap.next - 2
                b == heap.next - 1
                h == [heap EXCEPT !.writing = {},
                                  !.mem = Store(Store(@, a, da), b, db),
                                  !.res = [i \in DOMAIN p |-> [Name |-> p[i], Dates |-> IF i = 1 THEN a ELSE b]]]
            IN  heap' = Collect(IF names = {} THEN AnchorDone(h) ELSE [h EXCEPT !.pc = "merge"])
    /\ UNCHANGED heapFrame

\* for _, rf := range res: the map the loop body is going to write, the one
\* merged holds under the name or a new copyDates
MergeBegin ==
    /\ heap.pc = "merge"
    /\ LET rf == Head(heap.res)
           existing == rf.Name \in DOMAIN heap.merged
           target == IF existing THEN heap.merged[rf.Name] ELSE heap.next
       IN  heap' = [heap EXCEPT !.pc = "merging", !.writing = {target},
                                !.next = IF existing THEN @ ELSE @ + 1,
                                !.mem = IF existing THEN @ ELSE Alloc(@, target, <<>>),
                                !.merged = [n \in DOMAIN @ \cup {rf.Name} |-> IF n = rf.Name THEN target ELSE @[n]]]
    /\ UNCHANGED heapFrame

\* the loop body has written it; after the last rf the next anchor, after
\* the last anchor the flattening
MergeEnd ==
    /\ heap.pc = "merging"
    /\ LET rf == Head(heap.res)
           target == heap.merged[rf.Name]
           last == Len(heap.res) = 1
           h == [heap EXCEPT !.writing = {},
                             !.mem = Store(@, target, WriteDates(@[target], @[rf.Dates])),
                             !.res = Tail(@)]
       IN  heap' = Collect(IF last THEN AnchorDone(h) ELSE [h EXCEPT !.pc = "merge"])
    /\ UNCHANGED heapFrame

\* out := make([]parser.Refuge, 0, len(merged)), and the appends begin
FlattenBegin ==
    /\ heap.pc = "flatten"
    /\ heap' = [heap EXCEPT !.pc = "flattening", !.out = heap.next, !.next = @ + 1, !.writing = {heap.next},
                            !.mem = Alloc(@, heap.next, <<>>)]
    /\ UNCHANGED heapFrame

\* for _, rf := range merged { out = append(out, rf) }; return out, nil
FlattenEnd ==
    /\ heap.pc = "flattening"
    /\ \E p \in Perms(DOMAIN heap.merged) :
         heap' = Collect([heap EXCEPT !.pc = "returned", !.writing = {}, !.merged = <<>>,
                                      !.mem = Store(@, heap.out, [i \in DOMAIN p |-> [Name |-> p[i], Dates |-> heap.merged[p[i]]]])])
    /\ UNCHANGED heapFrame

\* web.UpdateState(refuges, time.Now()): state.Refuges = refuges under the
\* write lock, which waits for the readers to leave
UpdateStateCall ==
    /\ heap.pc = "returned"
    /\ heap.home.pc # "locked"
    /\ heap' = Collect([heap EXCEPT !.pc = "scan", !.Refuges = heap.out,
                                    !.handed = @ \cup Reach(heap.mem, {heap.out})])
    /\ UNCHANGED heapFrame

\* the scan of the polling loop reads refuges and writes notifiedDates and
\* newAvailabilities only
ScanSnapshot ==
    /\ heap.pc = "scan"
    /\ heap' = Collect([heap EXCEPT !.pc = "idle", !.out = 0])
    /\ UNCHANGED heapFrame

\* handleHome: state.mu.RLock(), and the table is built from state.Refuges
HomeRLock ==
    /\ heap.home.pc = "idle"
    /\ heap' = [heap EXCEPT !.home.pc = "locked"]
    /\ UNCHANGED heapFrame

\* view.Refuges = state.Refuges; state.mu.RUnlock()
HomeRUnlock ==
    /\ heap.home.pc = "locked"
    /\ heap' = [heap EXCEPT !.home.pc = "render", !.home.view = heap.Refuges]
    /\ UNCHANGED heapFrame

\* t.Execute(w, view) has ranged over view.Refuges and their Dates
HomeExecuted ==
    /\ heap.home.pc = "render"
    /\ heap' = Collect([heap EXCEPT !.home.pc = "idle", !.home.view = 0])
    /\ UNCHANGED heapFrame

NextHeap ==
    \/ FetchRefugesWindowCall \/ ParseRefugeAvailabilityError \/ ParseRefugeAvailabilityBegin \/ ParseRefugeAvailabilityEnd
    \/ MergeBegin \/ MergeEnd \/ FlattenBegin \/ FlattenEnd \/ UpdateStateCall \/ ScanSnapshot
    \/ HomeRLock \/ HomeRUnlock \/ HomeExecuted

SpecHeap == InitHeap /\ [][NextHeap]_vars

(***************************************************************************)
(* SpecFair: the polling loop of the general revision with the retry of    *)
(* parseRefugeContent in the waiting room followed step by step, and with  *)
(* the progress the scheduler gives main.  The retry has no bound: the     *)
(* page is requested again after each sleep for as long as it holds the    *)
(* waiting-room marker.                                                    *)
(***************************************************************************)
InitFair ==
    /\ Init
    /\ mode = "general"
    /\ env = [token |-> TRUE, chatIDs |-> <<EnvChat>>, dbURL |-> TRUE]
    /\ subscribers = <<>>

\* a response holds the waiting-room marker: time.Sleep(1 * time.Minute)
WaitingRoomSleep ==
    /\ pc = "fetch"
    /\ pc' = "sleeping"
    /\ UNCHANGED <<phase, cycle, sigPending, notifiedDates, state, lastSent, processed>>
    /\ UNCHANGED configVars
    /\ UNCHANGED otherVars
    /\ UNCHANGED fetchVars

\* the sleep is over: the request is made again and its body is parsed
WaitingRoomRetry ==
    /\ pc = "sleeping"
    /\ pc' = "fetch"
    /\ UNCHANGED <<phase, cycle, sigPending, notifiedDates, state, lastSent, processed>>
    /\ UNCHANGED configVars
    /\ UNCHANGED otherVars
    /\ UNCHANGED fetchVars

\* a signal delivered once signal.Notify(sigChan, ...) has been called
SignalNotified ==
    /\ phase = "loop"
    /\ Signal

\* the steps of the goroutine of main
MainStep == Fetch \/ WaitingRoomSleep \/ WaitingRoomRetry \/ Startup \/ Tick \/ CycleGeneral \/ Shutdown

NextFair == Fetch \/ WaitingRoomSleep \/ WaitingRoomRetry \/ Startup \/ Tick \/ CycleGeneral \/ SignalNotified \/ Shutdown

\* main keeps running while it has a step to take, and a select that finds
\* sigChan ready again and again takes it in the end (select chooses among
\* the ready cases at random)
SpecFair == InitFair /\ [][NextFair]_vars /\ WF_vars(MainStep) /\ SF_vars(Shutdown)

(***************************************************************************)
(* SpecLock: the goroutines that use web.state.  main calls UpdateState,   *)
(* StartServer initialises LastCheck and then serves; each handler serves  *)
(* one request at a time here.                                             *)
(***************************************************************************)
InitLock ==
    /\ OthersIdle
    /\ PollingOff
    /\ mode = "general"
    /\ env = [token |-> TRUE, chatIDs |-> <<EnvChat>>, dbURL |-> TRUE]
    /\ subscribers = <<>>
    /\ queries = {}

nonLockVars == <<qm, request, response, ops, served, storeVars, unitVars, configVars, pc, phase, cycle, sigPending, notifiedDates, refuges, fetchErr, sawLogin, reqFailed, partial, lastSent, processed>>

\* main evaluates the arguments of web.UpdateState(refuges, time.Now()); a
\* caller may also pass the zero time
CallUpdateState ==
    /\ updater.pc = "idle"
    /\ updater.n < MaxUpdates
    /\ \E zero \in BOOLEAN :
        /\ updater' = [pc |-> "called", n |-> updater.n + 1, refuges |-> Snapshot(updater.n + 1),
                       lastCheck |-> IF zero THEN ZeroTime ELSE clock]
        /\ clock' = IF zero THEN clock ELSE clock + 1
    /\ UNCHANGED <<mu, server, handlers, left, state>>
    /\ UNCHANGED nonLockVars

\* state.mu.Lock()
UpdateStateLock ==
    /\ updater.pc = "called"
    /\ MayLock(mu)
    /\ mu' = [mu EXCEPT !.writer = "UpdateState"]
    /\ updater' = [updater EXCEPT !.pc = "locked"]
    /\ UNCHANGED <<server, handlers, left, clock, state>>
    /\ UNCHANGED nonLockVars

\* state.Refuges = refuges
UpdateStateRefuges ==
    /\ updater.pc = "locked"
    /\ state' = [state EXCEPT !.Refuges = updater.refuges]
    /\ updater' = [updater EXCEPT !.pc = "refugesSet"]
    /\ UNCHANGED <<mu, server, handlers, left, clock>>
    /\ UNCHANGED nonLockVars

\* if !lastCheck.IsZero() { state.LastCheck = lastCheck }
UpdateStateLastCheck ==
    /\ updater.pc = "refugesSet"
    /\ state' = [state EXCEPT !.LastCheck = IF updater.lastCheck # ZeroTime THEN updater.lastCheck ELSE @]
    /\ updater' = [updater EXCEPT !.pc = "lastCheckSet"]
    /\ UNCHANGED <<mu, server, handlers, left, clock>>
    /\ UNCHANGED nonLockVars

\* the deferred state.mu.Unlock()
UpdateStateUnlock ==
    /\ updater.pc = "lastCheckSet"
    /\ mu' = [mu EXCEPT !.writer = "none"]
    /\ updater' = [updater EXCEPT !.pc = "idle"]
    /\ left' = [left EXCEPT !["UpdateState"] = @ \cup {state}]
    /\ UNCHANGED <<server, handlers, clock, state>>
    /\ UNCHANGED nonLockVars

\* StartServer: state.mu.Lock()
StartServerLock ==
    /\ server = "start"
    /\ MayLock(mu)
    /\ mu' = [mu EXCEPT !.writer = "StartServer"]
    /\ server' = "locked"
    /\ UNCHANGED <<updater, handlers, left, clock, state>>
    /\ UNCHANGED nonLockVars

\* StartServer: state.LastCheck = time.Now()
StartServerLastCheck ==
    /\ server = "locked"
    /\ state' = [state EXCEPT !.LastCheck = clock]
    /\ clock' = clock + 1
    /\ server' = "lastCheckSet"
    /\ UNCHANGED <<mu, updater, handlers, left>>
    /\ UNCHANGED nonLockVars

\* StartServer: state.mu.Unlock(), and then ListenAndServe
StartServerUnlock ==
    /\ server = "lastCheckSet"
    /\ mu' = [mu EXCEPT !.writer = "none"]
    /\ server' = "serving"
    /\ left' = [left EXCEPT !["StartServer"] = @ \cup {state}]
    /\ UNCHANGED <<updater, handlers, clock, state>>
    /\ UNCHANGED nonLockVars

\* a request arrives; handleHome, handleStatus: state.mu.RLock()
HandlerRLock(h) ==
    /\ server = "serving"
    /\ handlers[h].pc = "idle"
    /\ MayRLock(mu)
    /\ mu' = [mu EXCEPT !.readers = @ \cup {h}]
    /\ handlers' = [handlers EXCEPT ![h] = [NoRead EXCEPT !.pc = "locked"]]
    /\ UNCHANGED <<updater, server, left, clock, state>>
    /\ UNCHANGED nonLockVars

\* the handler reads state.Refuges
HandlerRefuges(h) ==
    /\ handlers[h].pc = "locked"
    /\ handlers' = [handlers EXCEPT ![h].pc = "refugesRead", ![h].Refuges = state.Refuges]
    /\ UNCHANGED <<mu, updater, server, left, clock, state>>
    /\ UNCHANGED nonLockVars

\* the handler reads state.LastCheck
HandlerLastCheck(h) ==
    /\ handlers[h].pc = "refugesRead"
    /\ handlers' = [handlers EXCEPT ![h].pc = "lastCheckRead", ![h].LastCheck = state.LastCheck]
    /\ UNCHANGED <<mu, updater, server, left, clock, state>>
    /\ UNCHANGED nonLockVars

\* state.mu.RUnlock(), and the response is written
HandlerRUnlock(h) ==
    /\ handlers[h].pc = "lastCheckRead"
    /\ mu' = [mu EXCEPT !.readers = @ \ {h}]
    /\ handlers' = [handlers EXCEPT ![h] = NoRead]
    /\ UNCHANGED <<updater, server, left, clock, state>>
    /\ UNCHANGED nonLockVars

NextLock ==
    \/ CallUpdateState
    \/ UpdateStateLock
    \/ UpdateStateRefuges
    \/ UpdateStateLastCheck
    \/ UpdateStateUnlock
    \/ StartServerLock
    \/ StartServerLastCheck
    \/ StartServerUnlock
    \/ \E h \in Handlers : HandlerRLock(h)
    \/ \E h \in Handlers : HandlerRefuges(h)
    \/ \E h \in Handlers : HandlerLastCheck(h)
    \/ \E h \in Handlers : HandlerRUnlock(h)

SpecLock == InitLock /\ [][NextLock]_vars

(***************************************************************************)
(* Properties of the polling loop.                                         *)
(***************************************************************************)
\* the step in which the loop handles the result of a tick's fetch
CycleStep == pc = "fetched" /\ phase = "loop" /\ pc' # pc

\* the loop has handled the fetch of at least one tick and waits again
AfterACycle == pc = "waiting" /\ phase = "loop" /\ cycle >= 1

\* the (refuge, date, status) lines of the messages of one kind
Entries(msgs, kind) == UNION {msgs[i].entries : i \in {j \in DOMAIN msgs : msgs[j].kind = kind}}

\* the dates some refuge of a snapshot holds with a status other than Full
NonFullDates(rs) == UNION {{d \in DOMAIN rs[i].Dates : rs[i].Dates[d] # "Full"} : i \in DOMAIN rs}

\* the status a snapshot holds for a refuge and a date, as a set
StatusIn(rs, name, date) == {rs[i].Dates[date] : i \in {j \in DOMAIN rs : rs[j].Name = name /\ date \in DOMAIN rs[j].Dates}}

\* C1: a date that is in notifiedDates when a cycle starts is in no general
\* availability notification of that cycle, whatever the snapshot holds
C1_NoRepeatedDate ==
    [][CycleStep => \A e \in Entries(lastSent', "availability") : e.date \notin notifiedDates]_vars

\* a second cycle announced a date while its snapshot held another non-Full
\* date, which had been announced before and was left out
C1_Witness ==
    /\ mode = "general" /\ AfterACycle /\ cycle = 2 /\ fetchErr = "none"
    /\ Entries(lastSent, "availability") # {}
    /\ \E d \in NonFullDates(refuges) : d \notin {e.date : e \in Entries(lastSent, "availability")}

\* C2: after a cycle in which every refuge yielded zero dates, the loop has
\* sent exactly one message, the "No dates were parsed" warning
C2_WarningOnZeroDates ==
    (AfterACycle /\ fetchErr = "nodates" /\ ~partial /\ ~sawLogin /\ ~reqFailed)
        => (Len(lastSent) = 1 /\ lastSent[1].kind = "warning")

\* C3: in a cycle whose fetch succeeded, the dates added to notifiedDates are
\* exactly the dates some refuge holds with a status other than Full and that
\* were not in notifiedDates; every line sent is such a date with the status
\* the snapshot holds; and the general notification holds all of them
C3_QualifyingDates ==
    [][(CycleStep /\ fetchErr = "none") =>
         LET avail == NonFullDates(refuges) \ notifiedDates
             sent == Entries(lastSent', "availability") \cup Entries(lastSent', "subscription")
         IN  /\ notifiedDates' = notifiedDates \cup avail
             /\ \A e \in sent : /\ e.date \in avail
                                /\ e.status # "Full"
                                /\ e.status \in StatusIn(refuges, e.refuge, e.date)
             /\ mode = "general" => {e.date : e \in sent} = avail]_vars

\* a general notification was sent from a snapshot that holds a Full date
\* which is not in notifiedDates
C3_Witness ==
    /\ mode = "general" /\ AfterACycle /\ fetchErr = "none"
    /\ Entries(lastSent, "availability") # {}
    /\ \E i \in DOMAIN refuges : \E d \in DOMAIN refuges[i].Dates :
          refuges[i].Dates[d] = "Full" /\ d \notin notifiedDates

\* C4: no step removes a date from notifiedDates
C4_Ratchet == [][notifiedDates \subseteq notifiedDates']_vars

\* a cycle of the per-subscriber revision failed after dates had been marked
C4_Witness ==
    /\ mode = "perSubscriber" /\ AfterACycle /\ cycle = 2
    /\ fetchErr # "none" /\ notifiedDates # {}

\* C5: after a cycle in which a response held the login marker, the fetch
\* has returned ErrReauthNeeded and the loop has sent the reauth alert
C5_ReauthAlert ==
    (mode = "general" /\ AfterACycle /\ sawLogin)
        => (fetchErr = "reauth" /\ \E i \in DOMAIN lastSent : lastSent[i].kind = "reauth")

\* C6, as stated: after a cycle in which a request failed once dates had
\* been extracted, the status surface holds the results of that cycle
C6_PartialResultsKept ==
    (AfterACycle /\ reqFailed /\ partial) => (state.LastCheck = Now /\ state.Refuges # <<>>)

\* C6, amended: a cycle in which a request of ParseRefugeAvailability
\* failed is given up as a whole: the fetch returns no refuges, and the loop
\* leaves the status surface and notifiedDates alone and sends nothing
C6_FailedRequestAbandonsCycle ==
    [][(CycleStep /\ reqFailed) =>
         /\ refuges = <<>> /\ fetchErr = "transport"
         /\ state' = state /\ notifiedDates' = notifiedDates
         /\ lastSent' = <<>> /\ pc' = "waiting"]_vars

\* a cycle was given up although dates had been extracted in it
C6_Witness == AfterACycle /\ reqFailed /\ partial /\ state.LastCheck < Now /\ lastSent = <<>>

\* C7: the step that handles a cycle, whatever its errors, leaves the loop
\* waiting for the next tick, and main returns only by taking a signal
C7_LoopSurvives ==
    [][/\ CycleStep => pc' = "waiting"
       /\ (pc' = "done" /\ pc # "done") => (pc = "waiting" /\ sigPending)]_vars

\* the loop waits again after two cycles, the second ended by an error
C7_Witness == AfterACycle /\ cycle = 2 /\ fetchErr = "nodates" /\ ~sigPending

\* C8, as stated: no new (refuge, date) pair is sent to two subscribers
C8_FirstSubscriberClaims ==
    \A i, j \in DOMAIN lastSent :
        (i < j /\ lastSent[i].kind = "subscription" /\ lastSent[j].kind = "subscription")
            => lastSent[i].entries \cap lastSent[j].entries = {}

\* C8, amended: a pair sent to one subscriber in a cycle is sent, in the same
\* cycle, to every subscriber whose queries were listed and have a query
\* matching it, and its date was not in notifiedDates when the cycle started
C8_AllMatchingSubscribersSent ==
    [][(CycleStep /\ mode = "perSubscriber") =>
         \A e \in Entries(lastSent', "subscription") :
             /\ e.date \notin notifiedDates
             /\ \A k \in DOMAIN processed' :
                   (\E q \in ListQueriesByChat(processed'[k]) : queryMatches(e.refuge, e.date, q))
                       => \E i \in DOMAIN lastSent' : lastSent'[i].to = <<processed'[k]>> /\ e \in lastSent'[i].entries]_vars

\* two subscribers were sent the same pair in one cycle
C8_Witness ==
    /\ mode = "perSubscriber" /\ AfterACycle
    /\ \E i, j \in DOMAIN lastSent :
          i < j /\ lastSent[i].kind = "subscription" /\ lastSent[j].kind = "subscription"
                /\ lastSent[i].entries \cap lastSent[j].entries # {}

(***************************************************************************)
(* Properties of queryMatches.                                             *)
(***************************************************************************)
\* the string is a date of the form YYYY-MM-DD
IsDate(s) == ParseDate(s).ok

\* d is not before from and not after to, in the order of the calendar
NotBefore(d, from) == IsDate(d) /\ IsDate(from) /\ (d = from \/ DateLess(from, d))

NotAfter(d, to) == IsDate(d) /\ IsDate(to) /\ (d = to \/ DateLess(d, to))

\* the claim as stated: the date lies in the window the two bounds give, a
\* bound only being unbounded when it is absent
MatchesAsStated(refuge, date, q) ==
    /\ q.Refuge = "*" \/ q.Refuge = refuge
    /\ \/ q.DateFrom = <<>> /\ q.DateTo = <<>>
       \/ /\ IsDate(date)
          /\ q.DateFrom = <<>> \/ NotBefore(date, q.DateFrom)
          /\ q.DateTo = <<>> \/ NotAfter(date, q.DateTo)

\* amended: a bound that is absent or is no date is unbounded
MatchesAmended(refuge, date, q) ==
    /\ q.Refuge = "*" \/ q.Refuge = refuge
    /\ \/ q.DateFrom = <<>> /\ q.DateTo = <<>>
       \/ /\ IsDate(date)
          /\ ~IsDate(q.DateFrom) \/ NotBefore(date, q.DateFrom)
          /\ ~IsDate(q.DateTo) \/ NotAfter(date, q.DateTo)

HandleStep == request # NoRequest /\ response = 0 /\ response' # 0

\* the recipient id is empty or holds a character that is no digit 0..9
BadChatID(id) == id = <<>> \/ \E i \in DOMAIN id : id[i] \notin 48..57

\* C10: a POST /subscribe whose chat_id is empty or holds a non-digit is
\* answered with a 4xx status; the handler calls neither UpsertSubscriber nor
\* AddQuery nor SendMessageTo, and the store is as it was
C10_BadChatIDRejected ==
    [][(HandleStep /\ request.method = "POST" /\ BadChatID(request.chat_id)) =>
         /\ response' \in 400..499
         /\ ops' = <<>>
         /\ subscribers' = subscribers /\ queries' = queries]_vars

\* a POST with the chat_id "1a" was answered 400 by a server whose store
\* holds a subscriber
C10_Witness ==
    /\ request.method = "POST" /\ request.formOk /\ request.chat_id = <<49, 97>>
    /\ response = 400 /\ ops = <<>> /\ DOMAIN subscribers # {}

\* a form value is malformed: a language or a location that is given and is
\* not on its list, a date that is given and is no YYYY-MM-DD date, or a
\* date_from later than the date_to
MalformedForm(r) ==
    \/ r.language # "" /\ r.language \notin allowedLang
    \/ r.refuge # "" /\ r.refuge \notin allowedRefuge
    \/ r.date_from # <<>> /\ ~IsDate(r.date_from)
    \/ r.date_to # <<>> /\ ~IsDate(r.date_to)
    \/ IsDate(r.date_from) /\ IsDate(r.date_to) /\ DateLess(r.date_to, r.date_from)

\* C11: a POST /subscribe with a malformed language, location or date has
\* been refused (with a 4xx status, or a 5xx one when the store could not be
\* opened) without any store or telegram call, and every stored query has
\* date bounds that are empty or dates
C11_MalformedRejected ==
    /\ (response # 0 /\ request.method = "POST" /\ request.formOk /\ MalformedForm(request))
          => (response >= 400 /\ ops = <<>>)
    /\ \A q \in queries : (q.DateFrom = <<>> \/ IsDate(q.DateFrom)) /\ (q.DateTo = <<>> \/ IsDate(q.DateTo))

(***************************************************************************)
(* Properties of the two stores.                                           *)
(***************************************************************************)
\* the rows a store holds for a chat id
RowsOf(db, chatID) == {r \in db.subs : r.ChatID = chatID}

\* the chat ids of a list of subscribers
ChatIDsOf(rows) == {r.ChatID : r \in rows}

\* C12: after a successful UpsertSubscriber a store holds exactly one row for
\* the chat id, with the language of that call, whatever it held before; so
\* of two calls with two languages the second one's language is stored
C12_UpsertOverwrites ==
    call.op = "UpsertSubscriber" =>
        /\ call.bolt.err = "nil" => \E r \in boltDB.subs : RowsOf(boltDB, call.id) = {r} /\ r.Language = call.sub.Language
        /\ call.pg.err = "nil" => \E r \in pgDB.subs : RowsOf(pgDB, call.id) = {r} /\ r.Language = call.sub.Language

\* both stores held the chat id with another language before the call
C12_Witness ==
    /\ call.op = "UpsertSubscriber" /\ call.bolt.err = "nil" /\ call.pg.err = "nil"
    /\ call.before.bolt.err = "nil" /\ call.before.bolt.val.Language # call.sub.Language
    /\ call.before.pg.err = "nil" /\ call.before.pg.val.Language # call.sub.Language

\* C13: after a successful UpsertSubscriber the row of either store has the
\* plan "free" when none was given, is active whatever IsActive was passed,
\* and is returned by ListSubscribers
C13_UpsertDefaults ==
    call.op = "UpsertSubscriber" =>
        /\ call.bolt.err = "nil" =>
              \A r \in RowsOf(boltDB, call.id) :
                  /\ call.sub.Plan = "" => r.Plan = "free"
                  /\ r.IsActive /\ r \in BoltListSubscribers(boltDB).val
        /\ call.pg.err = "nil" =>
              \A r \in RowsOf(pgDB, call.id) :
                  /\ call.sub.Plan = "" => r.Plan = "free"
                  /\ r.IsActive /\ r \in PgListSubscribers(pgDB).val

\* C14: after a successful DeactivateSubscriber of a subscriber a store held,
\* GetSubscriber returns the row with IsActive false and ListSubscribers does
\* not hold the chat id
C14_DeactivateHides ==
    call.op = "DeactivateSubscriber" =>
        /\ (call.before.bolt.err = "nil" /\ call.bolt.err = "nil") =>
              /\ BoltGetSubscriber(boltDB, call.id).err = "nil"
              /\ ~BoltGetSubscriber(boltDB, call.id).val.IsActive
              /\ call.id \notin ChatIDsOf(BoltListSubscribers(boltDB).val)
        /\ (call.before.pg.err = "nil" /\ call.pg.err = "nil") =>
              /\ PgGetSubscriber(pgDB, call.id).err = "nil"
              /\ ~PgGetSubscriber(pgDB, call.id).val.IsActive
              /\ call.id \notin ChatIDsOf(PgListSubscribers(pgDB).val)

\* C15: every call returns the same on the Bolt and on the Postgres store,
\* given the same calls before it
C15_SameResults == call.bolt = call.pg

\* C16: an AddQuery without an ID stores the query under an identifier no
\* stored query has: each store keeps the queries it held, and the insert is
\* not rejected for a duplicate identifier
C16_FreshQueryID ==
    [][(call'.n = call.n + 1 /\ call'.op = "AddQuery") =>
         /\ call'.bolt.val \notin {q.ID : q \in boltDB.qs} /\ boltDB.qs \subseteq boltDB'.qs
         /\ call'.pg.err # "duplicate key" /\ pgDB.qs \subseteq pgDB'.qs]_vars

(***************************************************************************)
(* Properties of the broadcasts of the polling loop (Spec).                *)
(***************************************************************************)
\* the messages sent through sendToSubscribersOrEnv
Broadcasts == {lastSent[i] : i \in {j \in 1..Len(lastSent) : lastSent[j].kind # "subscription"}}

\* the recipient list the sender loops over, up to the order of the rows
RecipientLists(m) == IF m.listing = "rows" THEN Perms(ActiveSubs) ELSE {env.chatIDs}

\* C17, as stated: a send that fails for one recipient does not end the
\* loop; every recipient of the list is attempted, each recipient exactly
\* once per message, and the failure is not returned to the caller.
C17_EachRecipientOnce ==
    \A m \in Broadcasts :
        /\ ~m.err => \E l \in RecipientLists(m) : Range(m.to) = Range(l)
        /\ \A i, j \in 1..Len(m.to) : m.to[i] = m.to[j] => i = j
        /\ m.failedAt # {} => ~m.err

\* C17, amended: a send that fails does not end the loop; every entry of the
\* recipient list is attempted exactly once, in the order of the list, and
\* the failure is not returned to the caller.  A chat id written twice in
\* TELEGRAM_CHAT_IDS is therefore sent the message twice.
C17_EachEntryOnce ==
    \A m \in Broadcasts :
        /\ ~m.err => m.to \in RecipientLists(m)
        /\ m.err => m.to = <<>>
        /\ m.failedAt \subseteq 1..Len(m.to)
        /\ m.failedAt # {} => ~m.err

\* a broadcast whose first send failed and whose second recipient was
\* attempted all the same, nothing being returned to the caller
C17_Witness ==
    \E m \in Broadcasts : Len(m.to) = 2 /\ m.to[1] # m.to[2] /\ m.failedAt = {1} /\ ~m.err

\* C18: sendToSubscribersOrEnv sends to the subscribers the store lists, and
\* to nobody else, whenever the store lists at least one; it sends to the
\* recipients of TELEGRAM_CHAT_IDS only when the listing fails or is empty
\* (the store of main is never nil); no message goes to both groups.
C18_StoreTakesPrecedence ==
    \A m \in Broadcasts :
        /\ m.listing = "rows" <=> (ActiveSubs # {} /\ m.listing # "error")
        /\ m.listing = "rows" => Range(m.to) = ActiveSubs /\ ~m.err
        /\ m.listing # "rows" => m.to = env.chatIDs \/ (m.err /\ m.to = <<>>)
        /\ Range(m.to) \cap ActiveSubs = {} \/ Range(m.to) \cap Range(env.chatIDs) = {}

\* a message sent to the listed subscribers while TELEGRAM_CHAT_IDS names
\* another recipient, who is not sent it
C18_Witness ==
    \E m \in Broadcasts :
        /\ m.listing = "rows" /\ Range(m.to) = {ChatA, ChatB}
        /\ EnvChat \in Range(env.chatIDs) /\ EnvChat \notin Range(m.to)

(***************************************************************************)
(* Properties of the lock of web.state (SpecLock).                         *)
(***************************************************************************)
\* the goroutines between Lock and Unlock, and between RLock and RUnlock
InUpdateState == updater.pc \in {"locked", "refugesSet", "lastCheckSet"}

InStartServer == server \in {"locked", "lastCheckSet"}

Reading == {h \in Handlers : handlers[h].pc # "idle"}

\* what a handler that has read both fields has seen
Seen(h) == [Refuges |-> handlers[h].Refuges, LastCheck |-> handlers[h].LastCheck]

HasRead == {h \in Handlers : handlers[h].pc = "lastCheckRead"}

\* C19, as stated: UpdateState is never in its critical section while a
\* handler reads, and what a handler has read, once a call of UpdateState
\* has completed, is web.state as a completed call of UpdateState left it.
C19_ReadsWhatUpdateStateLeft ==
    /\ InUpdateState => Reading = {}
    /\ \A h \in HasRead : left["UpdateState"] # {} => Seen(h) \in left["UpdateState"]

\* C19, amended: no writer (UpdateState, or StartServer initialising
\* LastCheck) is in its critical section while a handler reads, and what a
\* handler has read is web.state as the last completed critical section of a
\* writer left it.  LastCheck can be the start time of the server, with the
\* Refuges of an earlier UpdateState or with none.
C19_ReadsWhatWritersLeft ==
    /\ (InUpdateState \/ InStartServer) => Reading = {}
    /\ ~(InUpdateState /\ InStartServer)
    /\ \A h \in HasRead : Seen(h) = state /\ state \in left["UpdateState"] \cup left["StartServer"]

\* both handlers are between RLock and RUnlock, each having read the state
\* that a completed UpdateState left, while the next UpdateState waits
C19_Witness ==
    /\ HasRead = Handlers
    /\ \A h \in Handlers : Seen(h) \in left["UpdateState"] /\ Seen(h).Refuges # <<>>
    /\ updater.pc = "called"

(***************************************************************************)
(* Shutdown (SpecFair).                                                    *)
(***************************************************************************)
\* C20: whenever a shutdown signal has been delivered, the polling loop
\* eventually stops, whatever the loop was doing when the signal arrived,
\* and the "Monitoring stopped" notification has then been attempted.
C20_SignalStopsLoop ==
    sigPending ~> (pc = "done" /\ \E m \in Broadcasts : m.kind = "stopped")

(***************************************************************************)
(* Properties of parseRefugeContent (SpecParse).                           *)
(***************************************************************************)
\* the document given to the call
Document == parse.chain[1].body

\* the entries the two loops take: a date text of two parts and, for an
\* available day, a place count
TakenDispo == {i \in 1..Len(Document.dispo) : Document.dispo[i].place # "" /\ Len(Document.dispo[i].date) = 2}

TakenComplet == {i \in 1..Len(Document.complet) : Len(Document.complet[i]) = 2}

\* a calendar document whose entries all have the stated shape
WellFormed ==
    /\ ~Document.login /\ ~Document.waiting
    /\ TakenDispo = 1..Len(Document.dispo)
    /\ TakenComplet = 1..Len(Document.complet)

Key(tok) == <<parse.anchor[1], tok[1], tok[2]>>

\* C21, as stated: a document with N available-day entries and M full-day
\* entries leaves exactly N+M entries in the date map, keyed with the
\* anchor's year, each available entry mapped to its place count and each
\* full entry mapped to "Full".
C21_OneEntryPerDay ==
    (parse.done /\ WellFormed) =>
        /\ parse.err = "none"
        /\ Cardinality(DOMAIN parse.dates) = Len(Document.dispo) + Len(Document.complet)
        /\ \A i \in 1..Len(Document.dispo) : parse.dates[Key(Document.dispo[i].date)] = Document.dispo[i].place
        /\ \A i \in 1..Len(Document.complet) : parse.dates[Key(Document.complet[i])] = "Full"

\* C21, amended: a document without the login and waiting-room markers
\* leaves one entry per distinct day token among its entries, keyed with the
\* anchor's year: "Full" when a full-day entry has the token, and otherwise
\* the place count of the last available-day entry that has it.  The map has
\* N+M entries exactly when the N+M day tokens are pairwise distinct.
C21_OneEntryPerToken ==
    (parse.done /\ ~Document.login /\ ~Document.waiting) =>
        LET dispoToks == {Document.dispo[i].date : i \in TakenDispo}
            completToks == {Document.complet[i] : i \in TakenComplet}
            last(t) == CHOOSE i \in TakenDispo : Document.dispo[i].date = t /\ \A j \in TakenDispo : Document.dispo[j].date = t => j <= i
        IN  /\ parse.err = "none"
            /\ DOMAIN parse.dates = {Key(t) : t \in dispoToks \cup completToks}
            /\ \A t \in completToks : parse.dates[Key(t)] = "Full"
            /\ \A t \in dispoToks \ completToks : parse.dates[Key(t)] = Document.dispo[last(t)].place
            /\ Cardinality(DOMAIN parse.dates) = Cardinality(TakenDispo) + Cardinality(TakenComplet)
                   <=> Cardinality(dispoToks \cup completToks) = Cardinality(TakenDispo) + Cardinality(TakenComplet)

\* a document with one available day and one full day, parsed under an
\* anchor of the next year
C21_Witness ==
    /\ parse.done /\ WellFormed
    /\ Len(Document.dispo) = 1 /\ Len(Document.complet) = 1
    /\ parse.anchor[1] = 2026
    /\ parse.dates = (<<2026, 8, 3>> :> "5" @@ <<2026, 8, 10>> :> "Full")

(***************************************************************************)
(* Further properties of the polling loop (Spec).                          *)
(***************************************************************************)
\* the dates a snapshot holds for a refuge
DatesIn(rs, name) == UNION {DOMAIN rs[i].Dates : i \in {j \in DOMAIN rs : rs[j].Name = name}}

\* the cycle that is being handled and the cycle before it both fetched a
\* snapshot: web.state still holds the one of the cycle before
SecondOfTwoSuccessfulCycles == CycleStep /\ fetchErr = "none" /\ cycle >= 2 /\ state.LastCheck = cycle

\* C22: between two consecutive successful cycles of the general loop, a date
\* of a refuge whose status changes to another place count, or from Full to a
\* place count, is in the availability notification of the second cycle.
C22_ChangeNotified ==
    [][(SecondOfTwoSuccessfulCycles /\ mode = "general") =>
         \A name \in RefugeNames : \A d \in DatesIn(refuges, name) \cap DatesIn(state.Refuges, name) :
             (StatusIn(refuges, name, d) # {"Full"} /\ StatusIn(refuges, name, d) # StatusIn(state.Refuges, name, d))
                 => \E e \in Entries(lastSent', "availability") : e.refuge = name /\ e.date = d]_vars

(***************************************************************************)
(* Store errors in handleSubscribe (SpecWeb).                              *)
(***************************************************************************)
\* C23: when UpsertSubscriber or AddQuery returns an error while POST
\* /subscribe is handled, the request is answered with an error status
\* instead of the redirect, and no message is sent for it.
C23_StoreErrorFailsRequest ==
    [][(HandleStep /\ \E i \in DOMAIN ops' : ops'[i][3] = "error") =>
         /\ response' >= 400
         /\ \A i \in DOMAIN ops' : ops'[i][1] # "SendMessageTo"]_vars

(***************************************************************************)
(* The waiting room (SpecFair).                                            *)
(***************************************************************************)
\* C24: the retry of parseRefugeContent in the waiting room is bounded: a
\* fetch that has started always returns, with a snapshot or with an error.
C24_FetchReturns == (pc = "fetch") ~> (pc = "fetched")

(***************************************************************************)
(* Unsubscribing (SpecHook).                                               *)
(***************************************************************************)
\* C25: a subscriber who was greeted with "Send /stop to unsubscribe" and
\* whose last message to the webhook was /stop (with no new subscription
\* since) is not among the subscribers the store lists, and no broadcast
\* made from then on to the listed subscribers is sent to them.
C25_StopDeactivates ==
    [][\A c \in hook'.stopped :
         /\ c \notin {d \in DOMAIN subscribers' : subscribers'[d].IsActive}
         /\ \A i \in DOMAIN lastSent' :
               (lastSent' # lastSent /\ lastSent'[i].listing = "rows") => c \notin Range(lastSent'[i].to)]_vars

(***************************************************************************)
(* Failed cycles and the dedup set (Spec).                                 *)
(***************************************************************************)
\* C26: a cycle whose fetch returned an error leaves web.state (Refuges and
\* LastCheck) and notifiedDates as they were, and sends no availability
\* notification, general or per subscriber.
C26_FailedCycleChangesNothing ==
    [][(CycleStep /\ fetchErr # "none") =>
         /\ state' = state
         /\ notifiedDates' = notifiedDates
         /\ \A i \in DOMAIN lastSent' : lastSent'[i].kind \notin {"availability", "subscription"}]_vars

\* a second cycle failed after a first one had published a snapshot and
\* announced a date: both are as the first cycle left them
C26_Witness ==
    /\ AfterACycle /\ cycle = 2 /\ fetchErr # "none"
    /\ state.Refuges # <<>> /\ state.LastCheck = 2
    /\ notifiedDates # {}
    /\ \A i \in DOMAIN lastSent : lastSent[i].kind \notin {"availability", "subscription"}

\* C27: in a successful cycle of the per-subscriber revision every non-Full
\* date of the snapshot is in notifiedDates afterwards, whatever the fan-out
\* did (no subscriber listed, no query, no match), and no line of a message
\* to a subscriber carries a date that was in notifiedDates before the
\* cycle; so a date that was marked without being sent is never sent later,
\* not even to a subscriber whose query is added afterwards.
C27_MarkedBeforeMatched ==
    [][(CycleStep /\ mode = "perSubscriber" /\ fetchErr = "none") =>
         /\ NonFullDates(refuges) \subseteq notifiedDates'
         /\ \A e \in Entries(lastSent', "subscription") : e.date \notin notifiedDates]_vars

\* the only subscriber had no query in the first cycle and has one that
\* matches everything in the second; a date the second snapshot holds with
\* places was marked in the first cycle, and the second cycle sent nothing
C27_Witness ==
    /\ mode = "perSubscriber" /\ AfterACycle /\ cycle = 2 /\ fetchErr = "none"
    /\ DOMAIN subscribers = {ChatA} /\ queries = {AnyQuery(ChatA)}
    /\ processed = <<ChatA>>
    /\ NonFullDates(refuges) # {} /\ NonFullDates(refuges) \subseteq notifiedDates
    /\ lastSent = <<>>

\* the places a snapshot holds a date with a status other than Full, in the
\* order of the scan
OpenAt(rs, d) == {i \in DOMAIN rs : d \in DOMAIN rs[i].Dates /\ rs[i].Dates[d] # "Full"}

FirstOpenAt(rs, d) == CHOOSE i \in OpenAt(rs, d) : \A j \in OpenAt(rs, d) : i <= j

\* C28: the dedup set of the general loop is keyed by the date alone: an
\* availability message carries a date only if the date was not in
\* notifiedDates, the date is in notifiedDates afterwards, no two entries of
\* the message share a date, and the entry of a date is the one of the refuge
\* the scan met first among those that hold the date with places.
C28_OneLocationPerDate ==
    [][(CycleStep /\ mode = "general") =>
         LET es == Entries(lastSent', "availability")
         IN  /\ \A e \in es : e.date \notin notifiedDates /\ e.date \in notifiedDates'
             /\ \A e1, e2 \in es : e1.date = e2.date => e1 = e2
             /\ \A e \in es : /\ OpenAt(refuges, e.date) # {}
                              /\ refuges[FirstOpenAt(refuges, e.date)].Name = e.refuge]_vars

\* a date with places at both refuges was announced for du Goûter, which the
\* scan met first, and not for Tête Rousse
C28_Witness ==
    /\ mode = "general" /\ AfterACycle /\ fetchErr = "none"
    /\ \E e \in Entries(lastSent, "availability") :
         /\ Cardinality(OpenAt(refuges, e.date)) = 2
         /\ e.refuge = DuGouter
         /\ refuges[1].Name = DuGouter
         /\ \A o \in Entries(lastSent, "availability") : o.date = e.date => o.refuge # TeteRousse

\* C29: the dates of an availability message of the general loop are in
\* notifiedDates when the cycle ends even if the message reached nobody, and
\* no step sends an availability message with a date that is in
\* notifiedDates; so a date whose message was not delivered is not sent
\* again.
C29_UndeliveredStaysMarked ==
    [][lastSent' # lastSent =>
         /\ \A m \in Range(lastSent') :
              (m.kind = "availability" /\ Undelivered(m)) => {e.date : e \in m.entries} \subseteq notifiedDates'
         /\ \A e \in Entries(lastSent', "availability") : e.date \notin notifiedDates]_vars

\* without a bot token no message reaches anybody; the second cycle has
\* ended, its snapshot holds dates with places, all of them marked by the
\* first cycle, whose message was not delivered, and nothing was sent
C29_Witness ==
    /\ mode = "general" /\ AfterACycle /\ cycle = 2 /\ fetchErr = "none"
    /\ ~env.token
    /\ NonFullDates(refuges) # {} /\ NonFullDates(refuges) \subseteq notifiedDates
    /\ lastSent = <<>>

\* the objects handleHome is reading: those of state.Refuges while it holds
\* the read lock, those of its view model while the template runs
HomeReads ==
    IF heap.home.pc = "locked" THEN Reach(heap.mem, {heap.Refuges})
    ELSE IF heap.home.pc = "render" THEN Reach(heap.mem, {heap.home.view})
    ELSE {}

\* C30: no step of fetchRefugesWindow or of the polling loop writes a slice
\* or a map that was reachable from an argument of web.UpdateState, and none
\* writes an object that handleHome is reading, under the read lock or after
\* it released it.
C30_SnapshotNeverWritten ==
    /\ heap.writing \cap heap.handed = {}
    /\ heap.writing \cap HomeReads = {}

\* the template of handleHome runs over the snapshot of the first fetch,
\* after RUnlock, while the second fetch merges the dates of a later month
\* into a map of its own
C30_Witness ==
    /\ heap.home.pc = "render" /\ heap.home.view # 0
    /\ heap.calls = 2 /\ heap.pc = "merging" /\ heap.anchor >= 2
    /\ heap.writing # {}
    /\ heap.home.view \in heap.handed

====
